---------------------------- MODULE Spec2Model ----------------------------
(***************************************************************************)
(* Rule-based categorisation and staging-to-fact load engine of monytix.   *)
(*                                                                         *)
(* Text is modelled character by character: a string is a sequence of      *)
(* one-character strings, so that normalisation, pattern synthesis and     *)
(* regex search are computed the way the Python code computes them.        *)
(***************************************************************************)
EXTENDS Integers, Sequences, FiniteSets, TLC

(***************************************************************************)
(* Characters and strings                                                  *)
(***************************************************************************)
LowerChars == <<"a","b","c","d","e","f","g","h","i","j","k","l","m",
                "n","o","p","q","r","s","t","u","v","w","x","y","z">>

UpperChars == <<"A","B","C","D","E","F","G","H","I","J","K","L","M",
                "N","O","P","Q","R","S","T","U","V","W","X","Y","Z">>

DigitChars == {"0","1","2","3","4","5","6","7","8","9"}

LowerSet == {LowerChars[i] : i \in 1..26}

UpperSet == {UpperChars[i] : i \in 1..26}

IsLower(c) == c \in LowerSet

IsUpper(c) == c \in UpperSet

IsDigit(c) == c \in DigitChars

IsSpace(c) == c = " "

IsAlnum(c) == IsLower(c) \/ IsUpper(c) \/ IsDigit(c)

\* \w of Python's re: letters, digits and the underscore
IsWordChar(c) == IsAlnum(c) \/ c = "_"

UpperChar(c) == IF IsLower(c) THEN UpperChars[CHOOSE i \in 1..26 : LowerChars[i] = c] ELSE c

LowerChar(c) == IF IsUpper(c) THEN LowerChars[CHOOSE i \in 1..26 : UpperChars[i] = c] ELSE c

\* str.upper()
StrUpper(s) == SubSeq([i \in 1..Len(s) |-> UpperChar(s[i])], 1, Len(s))

\* str.lower()
StrLower(s) == SubSeq([i \in 1..Len(s) |-> LowerChar(s[i])], 1, Len(s))

RECURSIVE LStrip(_)
LStrip(s) == IF s # <<>> /\ IsSpace(Head(s)) THEN LStrip(Tail(s)) ELSE s

RECURSIVE RStrip(_)
RStrip(s) == IF s # <<>> /\ IsSpace(s[Len(s)]) THEN RStrip(SubSeq(s, 1, Len(s) - 1)) ELSE s

\* str.strip()
StrStrip(s) == RStrip(LStrip(s))

\* re.sub(r'\s+', ' ', s): every run of white space becomes one space
RECURSIVE CollapseSpaces(_)
CollapseSpaces(s) ==
    IF s = <<>> THEN <<>>
    ELSE IF IsSpace(Head(s))
         THEN <<" ">> \o CollapseSpaces(LStrip(Tail(s)))
         ELSE <<Head(s)>> \o CollapseSpaces(Tail(s))

\* s.startswith(p)
StartsWith(s, p) == Len(p) <= Len(s) /\ SubSeq(s, 1, Len(p)) = p

\* p occurs in s at position i
OccursAt(s, p, i) == i >= 1 /\ i + Len(p) - 1 <= Len(s) /\ SubSeq(s, i, i + Len(p) - 1) = p

\* p in s
Contains(s, p) == \E i \in 1..(Len(s) + 1) : OccursAt(s, p, i)

\* str.split(): the maximal runs of non-space characters, in order
RECURSIVE SplitWords(_)
SplitWords(s) ==
    LET t == LStrip(s)
    IN  IF t = <<>> THEN <<>>
        ELSE LET n == IF \E i \in 1..Len(t) : IsSpace(t[i])
                      THEN (CHOOSE i \in 1..Len(t) :
                               IsSpace(t[i]) /\ \A j \in 1..(i - 1) : ~IsSpace(t[j])) - 1
                      ELSE Len(t)
             IN  <<SubSeq(t, 1, n)>> \o SplitWords(SubSeq(t, n + 1, Len(t)))


(***************************************************************************)
(* Normalizer (merchant_extractor.normalize_merchant_name)                 *)
(***************************************************************************)
sUPI     == <<"U","P","I">>
sPAYTM   == <<"P","A","Y","T","M">>
sPHONEPE == <<"P","H","O","N","E","P","E">>
sGPAY    == <<"G","P","A","Y">>

\* the alternation (UPI|PAYTM|PHONEPE|GPAY), in the order the regex tries it
RailPrefixes == <<sUPI, sPAYTM, sPHONEPE, sGPAY>>

\* re.sub(r'[^A-Z0-9\s]', '', s)
KeepUpperDigitSpace(c) == IsUpper(c) \/ IsDigit(c) \/ IsSpace(c)

\* re.sub(r'^(UPI|PAYTM|PHONEPE|GPAY)\s*', '', s, flags=re.IGNORECASE)
StripRailPrefix(s) ==
    LET hits == {i \in 1..Len(RailPrefixes) : StartsWith(StrUpper(s), RailPrefixes[i])}
    IN  IF hits = {} THEN s
        ELSE LET i == CHOOSE k \in hits : \A m \in hits : k <= m
             IN  LStrip(SubSeq(s, Len(RailPrefixes[i]) + 1, Len(s)))

\* number of digits that end s
RECURSIVE TrailingDigits(_)
TrailingDigits(s) ==
    IF s # <<>> /\ IsDigit(s[Len(s)]) THEN 1 + TrailingDigits(SubSeq(s, 1, Len(s) - 1)) ELSE 0

\* re.sub(r'\s+\d+$', '', s)
StripTrailingNumber(s) ==
    LET k    == TrailingDigits(s)
        head == SubSeq(s, 1, Len(s) - k)
    IN  IF k >= 1 /\ head # <<>> /\ IsSpace(head[Len(head)]) THEN RStrip(head) ELSE s

\* re.sub(r'\s+@\S+$', '', s): a white-space run, an '@' and non-space
\* characters to the end
StripTrailingHandle(s) ==
    LET ats == {i \in 2..Len(s) : /\ s[i] = "@"
                                  /\ IsSpace(s[i - 1])
                                  /\ i < Len(s)
                                  /\ \A j \in (i + 1)..Len(s) : ~IsSpace(s[j])}
    IN  IF ats = {} THEN s
        ELSE RStrip(SubSeq(s, 1, (CHOOSE i \in ats : \A m \in ats : i <= m) - 1))

normalize_merchant_name(merchant) ==
    IF merchant = <<>> THEN <<>>
    ELSE LET a == StrStrip(StrUpper(merchant))
             b == SelectSeq(a, KeepUpperDigitSpace)
             c == CollapseSpaces(b)
             d == StripRailPrefix(c)
             e == StripTrailingHandle(d)
             f == StripTrailingNumber(e)
         IN  StrStrip(f)


(***************************************************************************)
(* Rule patterns.  A rule's pattern_regex is one of the regex texts the    *)
(* learning service synthesizes, or a text that does not compile:          *)
(*   kind "word":  (?i)\bT1.*T2.*Tn\b     (merchant_pattern)               *)
(*   kind "any" :  (?i).*T1.*T2.*Tn.*     (desc_pattern)                   *)
(*   kind "bad" :  a malformed regex, re.search raises re.error            *)
(* toks is the sequence T1..Tn of literal tokens, as written in the text.  *)
(***************************************************************************)
NoPattern == [kind |-> "none", toks |-> <<>>]

\* absent codes and ids: Python's None, SQL's NULL.  An absent text is the
\* empty string <<>>: the code tests texts by truth value, which None and ''
\* share
None == "None"

MIN_MERCHANT_LENGTH == 3

MIN_PATTERN_TOKENS == 2

USER_RULE_PRIORITY == 10

DESC_RULE_PRIORITY == 12

MAX_RULES_PER_USER_PER_DAY == 50

\* re.sub(r'[^A-Za-z0-9]+', ' ', s).split()
NonAlnumToSpace(s) == SubSeq([i \in 1..Len(s) |-> IF IsAlnum(s[i]) THEN s[i] ELSE " "], 1, Len(s))

Tokens(s) == SplitWords(NonAlnumToSpace(s))

merchant_pattern(name) ==
    IF name = <<>> THEN NoPattern
    ELSE IF Len(StrStrip(name)) < MIN_MERCHANT_LENGTH THEN NoPattern
    ELSE LET tokens == Tokens(StrStrip(name))
         IN  IF Len(tokens) < 1 THEN NoPattern
             ELSE [kind |-> "word", toks |-> tokens]

\* STOPWORDS, as the set literal writes them (lower case)
STOPWORDS == { <<"u","p","i">>,
               <<"i","m","p","s">>,
               <<"n","e","f","t">>,
               <<"r","t","g","s">>,
               <<"t","x","n">>,
               <<"t","r","a","n","s","a","c","t","i","o","n">>,
               <<"r","e","f">>,
               <<"u","t","r">>,
               <<"r","r","n">>,
               <<"p","a","y","m","e","n","t">>,
               <<"c","a","r","d">>,
               <<"b","i","l","l">>,
               <<"d","r">>,
               <<"c","r">>,
               <<"d","e","b","i","t">>,
               <<"c","r","e","d","i","t">> }

\* t not in STOPWORDS and len(t) >= 2
StrongToken(t) == t \notin STOPWORDS /\ Len(t) >= 2

desc_pattern(description) ==
    IF description = <<>> THEN NoPattern
    ELSE LET tokens == SelectSeq(Tokens(StrUpper(description)), StrongToken)
         IN  IF Len(tokens) < MIN_PATTERN_TOKENS THEN NoPattern
             ELSE [kind |-> "any", toks |-> SubSeq(tokens, 1, IF Len(tokens) < 3 THEN Len(tokens) ELSE 3)]

\* _pattern_hash: SHA1 of the regex text; distinct texts get distinct hashes
pattern_hash(pattern) == pattern

(***************************************************************************)
(* re.search(pattern, text, re.IGNORECASE) for the pattern kinds above     *)
(***************************************************************************)
BoundaryBefore(text, i) == i = 1 \/ ~IsWordChar(text[i - 1])

BoundaryAfter(text, i) == i = Len(text) \/ ~IsWordChar(text[i + 1])

\* the tokens occur in order from position i on, the first one exactly at i;
\* anchored: the last token must end at a word boundary
RECURSIVE TokensFrom(_, _, _, _)
TokensFrom(toks, text, i, anchored) ==
    /\ OccursAt(text, toks[1], i)
    /\ IF Len(toks) = 1
       THEN (~anchored) \/ BoundaryAfter(text, i + Len(toks[1]) - 1)
       ELSE \E j \in (i + Len(toks[1]))..Len(text) : TokensFrom(Tail(toks), text, j, anchored)

\* re.IGNORECASE: pattern and text are compared in one case
RegexSearch(pattern, text) ==
    LET up   == StrUpper(text)
        toks == SubSeq([k \in 1..Len(pattern.toks) |-> StrUpper(pattern.toks[k])], 1, Len(pattern.toks))
    IN  CASE pattern.kind = "word" ->
                \E i \in 1..Len(up) : BoundaryBefore(up, i) /\ TokensFrom(toks, up, i, TRUE)
          [] pattern.kind = "any" ->
                \E i \in 1..Len(up) : TokensFrom(toks, up, i, FALSE)
          [] OTHER -> FALSE

\* re.search raises re.error
RegexRaises(pattern) == pattern.kind = "bad"


(***************************************************************************)
(* Rule store (spendsense.merchant_rules) and its cached, ordered read     *)
(***************************************************************************)
\* get_merchant_rules with the priority column left out of ORDER BY
RuleBeforeNewestFirst(r, q) ==
    \/ r.created_at > q.created_at
    \/ r.created_at = q.created_at /\ r.rule_id < q.rule_id

\* ORDER BY priority ASC, created_at DESC; rows equal in both are returned
\* in an order SQL leaves open, fixed here by rule_id
RuleBefore(r, q) ==
    \/ r.priority < q.priority
    \/ r.priority = q.priority /\ r.created_at > q.created_at
    \/ r.priority = q.priority /\ r.created_at = q.created_at /\ r.rule_id < q.rule_id

RECURSIVE OrderRules(_)
OrderRules(S) ==
    IF S = {} THEN <<>>
    ELSE LET first == CHOOSE r \in S : \A q \in S \ {r} : RuleBefore(r, q)
         IN  <<first>> \o OrderRules(S \ {first})

\* get_merchant_rules without the filter on tenant_id
AllActiveRules(store, tenant_id) == {r \in store : r.active}

\* the WHERE clause of get_merchant_rules: active rules, global ones and,
\* with a tenant given, that tenant's
VisibleRules(store, tenant_id) ==
    {r \in store : /\ r.active
                   /\ \/ r.tenant_id = None
                      \/ tenant_id # None /\ r.tenant_id = tenant_id}

\* the dictionary get_merchant_rules builds from a row
RuleDict(rule) ==
    [rule_id            |-> rule.rule_id,
     user_id            |-> rule.created_by,
     tenant_id          |-> rule.tenant_id,
     applies_to         |-> rule.applies_to,
     pattern_regex      |-> rule.pattern_regex,
     pattern_hash       |-> rule.pattern_hash,
     merchant_name_norm |-> <<>>,
     category_code      |-> rule.category_code,
     subcategory_code   |-> rule.subcategory_code,
     source             |-> rule.source,
     confidence         |-> IF rule.source = "learned" THEN 95 ELSE 85,
     active             |-> rule.active,
     priority           |-> rule.priority,
     created_at         |-> rule.created_at]

QueryRules(store, tenant_id) ==
    LET rows == OrderRules(VisibleRules(store, tenant_id))
    IN  SubSeq([i \in 1..Len(rows) |-> RuleDict(rows[i])], 1, Len(rows))

CacheKey(tenant_id) == IF tenant_id = None THEN "global" ELSE tenant_id

\* _cache_ttl_seconds
CacheTtlSeconds == 600

\* a key that is not in _cache; of an entry, data holds the dicts of the
\* cached list as the query built them and matched_text the "matched_text"
\* key of each of them, <<>> while the dict has no such key
NoEntry == [present |-> FALSE, data |-> <<>>, matched_text |-> <<>>, expires_at |-> 0]

\* _is_cache_valid with the expiry instant still served
IsCacheValidInclusive(c, key, t) == c[key].present /\ t <= c[key].expires_at

\* _is_cache_valid at time t
IsCacheValid(c, key, t) == c[key].present /\ t < c[key].expires_at

\* _set_cache
SetCache(c, key, data, t) ==
    [c EXCEPT ![key] = [present |-> TRUE, data |-> data,
                        matched_text |-> [i \in 1..Len(data) |-> <<>>],
                        expires_at |-> t + CacheTtlSeconds]]

(***************************************************************************)
(* Matcher (PGRulesClient.match_merchant and _fuzzy_match_merchant)        *)
(***************************************************************************)
\* the text the rule's branch of the loop searches, empty when no branch is
\* taken (applies_to does not fit or the text is empty)
RuleTarget(rule, merchant_name, description) ==
    IF rule.applies_to = "merchant" /\ merchant_name # <<>>
    THEN merchant_name
    ELSE IF rule.applies_to = "description" /\ description # <<>>
    THEN description
    ELSE <<>>

\* the rule's turn in the regex loop ends the loop with a match
RuleRegexMatches(rule, merchant_name, description) ==
    LET target == RuleTarget(rule, merchant_name, description)
    IN  /\ rule.pattern_regex # NoPattern
        /\ target # <<>>
        /\ ~RegexRaises(rule.pattern_regex)
        /\ RegexSearch(rule.pattern_regex, target)

\* index of the first rule of the list whose regex matches, 0 if none
FirstRegexMatch(rules, merchant_name, description) ==
    LET hits == {i \in 1..Len(rules) : RuleRegexMatches(rules[i], merchant_name, description)}
    IN  IF hits = {} THEN 0 ELSE CHOOSE i \in hits : \A j \in hits : i <= j


\* difflib.SequenceMatcher.find_longest_match over a and b: the longest
\* common block, of those the one that starts earliest in a, of those the
\* one that starts earliest in b; <<0, 0, 0>> when no character is shared
CommonAt(a, b, i, j, k) ==
    /\ i + k - 1 <= Len(a)
    /\ j + k - 1 <= Len(b)
    /\ SubSeq(a, i, i + k - 1) = SubSeq(b, j, j + k - 1)

HasCommon(a, b, k) == \E i \in 1..Len(a), j \in 1..Len(b) : CommonAt(a, b, i, j, k)

LongestMatch(a, b) ==
    IF ~HasCommon(a, b, 1) THEN <<0, 0, 0>>
    ELSE LET k == CHOOSE n \in 1..Len(a) : HasCommon(a, b, n) /\ ~HasCommon(a, b, n + 1)
             i == CHOOSE x \in 1..Len(a) :
                     /\ \E j \in 1..Len(b) : CommonAt(a, b, x, j, k)
                     /\ \A y \in 1..(x - 1) : ~\E j \in 1..Len(b) : CommonAt(a, b, y, j, k)
             j == CHOOSE x \in 1..Len(b) :
                     /\ CommonAt(a, b, i, x, k)
                     /\ \A y \in 1..(x - 1) : ~CommonAt(a, b, i, y, k)
         IN  <<i, j, k>>

\* the number of matched characters of get_matching_blocks
RECURSIVE MatchedChars(_, _)
MatchedChars(a, b) ==
    IF a = <<>> \/ b = <<>> THEN 0
    ELSE LET blk == LongestMatch(a, b)
         IN  IF blk[3] = 0 THEN 0
             ELSE blk[3]
                  + MatchedChars(SubSeq(a, 1, blk[1] - 1), SubSeq(b, 1, blk[2] - 1))
                  + MatchedChars(SubSeq(a, blk[1] + blk[3], Len(a)), SubSeq(b, blk[2] + blk[3], Len(b)))

\* scores are fractions <<numerator, denominator>>, denominator > 0
FracGreater(x, y) == x[1] * y[2] > y[1] * x[2]

FracMax(x, y) == IF FracGreater(y, x) THEN y ELSE x

\* SequenceMatcher(None, a, b).ratio() = 2 * matches / (len(a) + len(b))
SequenceRatio(a, b) ==
    IF Len(a) + Len(b) = 0 THEN <<1, 1>> ELSE <<2 * MatchedChars(a, b), Len(a) + Len(b)>>

\* the literal text left of a rule's regex once (?i), \b, .* and the regex
\* special characters are removed, upper-cased and stripped
FuzzyPatternText(pattern) ==
    LET RECURSIVE Concat(_)
        Concat(toks) == IF toks = <<>> THEN <<>> ELSE Head(toks) \o Concat(Tail(toks))
    IN  StrStrip(StrUpper(Concat(pattern.toks)))

SeqToSet(q) == {q[i] : i \in 1..Len(q)}

\* a threshold of 0.70
FuzzyThresholdLow == <<70, 100>>

\* the minimum threshold best_score starts from: 0.75
FuzzyThreshold == <<75, 100>>

\* the score of one rule in the fuzzy loop; <<0, 1>> when the rule is skipped
FuzzyScore(rule, merchant_name) ==
    LET merchant_upper == StrStrip(StrUpper(merchant_name))
        pattern_text   == FuzzyPatternText(rule.pattern_regex)
        similarity     == SequenceRatio(merchant_upper, pattern_text)
        pattern_words  == SeqToSet(SplitWords(pattern_text))
        merchant_words == SeqToSet(SplitWords(merchant_upper))
        overlap        == <<9 * Cardinality(pattern_words \cap merchant_words),
                            10 * Cardinality(pattern_words \cup merchant_words)>>
    IN  IF rule.applies_to # "merchant" \/ rule.pattern_regex = NoPattern THEN <<0, 1>>
        ELSE IF Len(pattern_text) < 3 THEN <<0, 1>>
        ELSE IF pattern_words # {} /\ merchant_words # {} THEN FracMax(similarity, overlap)
        ELSE similarity

\* _fuzzy_match_merchant with a later rule replacing the best one at an
\* equal score as well
FuzzyBestLast(rules, merchant_name) ==
    LET similarity == SubSeq([i \in 1..Len(rules) |-> FuzzyScore(rules[i], merchant_name)], 1, Len(rules))
        good == {i \in 1..Len(rules) : FracGreater(similarity[i], FuzzyThreshold)}
    IN  IF good = {} THEN 0
        ELSE CHOOSE i \in good :
                \A j \in good :
                    \/ FracGreater(similarity[i], similarity[j])
                    \/ /\ ~FracGreater(similarity[j], similarity[i])
                       /\ i >= j

\* _fuzzy_match_merchant: index of the rule kept as best_match, 0 if none.
\* A later rule replaces the best one only with a strictly greater score.
FuzzyBest(rules, merchant_name) ==
    LET similarity == SubSeq([i \in 1..Len(rules) |-> FuzzyScore(rules[i], merchant_name)], 1, Len(rules))
        good == {i \in 1..Len(rules) : FracGreater(similarity[i], FuzzyThreshold)}
    IN  IF good = {} THEN 0
        ELSE CHOOSE i \in good :
                \A j \in good :
                    \/ FracGreater(similarity[i], similarity[j])
                    \/ /\ ~FracGreater(similarity[j], similarity[i])
                       /\ i <= j

NoMatch == [how |-> "none", idx |-> 0]

\* match_merchant with the fuzzy pass tried before the regex loop
match_merchant_fuzzy_first(rules, merchant_name, description) ==
    LET j == IF merchant_name # <<>> THEN FuzzyBest(rules, merchant_name) ELSE 0
        i == FirstRegexMatch(rules, merchant_name, description)
    IN  IF j > 0 THEN [how |-> "fuzzy", idx |-> j]
        ELSE IF i > 0 THEN [how |-> "regex", idx |-> i]
        ELSE NoMatch

\* match_merchant over the rule list get_merchant_rules returned: which rule
\* of the list is returned, and by which pass
match_merchant(rules, merchant_name, description) ==
    LET i == FirstRegexMatch(rules, merchant_name, description)
    IN  IF i > 0 THEN [how |-> "regex", idx |-> i]
        ELSE IF merchant_name # <<>>
        THEN LET j == FuzzyBest(rules, merchant_name)
             IN  IF j > 0 THEN [how |-> "fuzzy", idx |-> j] ELSE NoMatch
        ELSE NoMatch

\* description[:50]
MatchedTextLen == 50

\* the text the regex loop stores under "matched_text" in the rule it
\* returns: no pattern of the model has a capture group, so match.groups()
\* is empty and the text is merchant_name or the head of the description
MatchedText(rule, merchant_name, description) ==
    IF rule.applies_to = "merchant" /\ merchant_name # <<>>
    THEN merchant_name
    ELSE SubSeq(description, 1, IF Len(description) < MatchedTextLen THEN Len(description)
                                ELSE MatchedTextLen)

\* the cache after match_merchant matched the list cached under key and
\* returned rule_match: the regex loop sets rule["matched_text"] on the
\* dict it returns, which is the dict of the cached list;
\* _fuzzy_match_merchant sets it on a copy of the dict
MatchWrites(c, key, rule_match, merchant_name, description) ==
    IF rule_match.how = "regex"
    THEN [c EXCEPT ![key].matched_text[rule_match.idx] =
                      MatchedText(c[key].data[rule_match.idx], merchant_name, description)]
    ELSE c


(***************************************************************************)
(* Categorization of a staging row (etl._extract_and_categorize)           *)
(***************************************************************************)
ContainsAny(text, keywords) == \E k \in keywords : Contains(text, k)

\* the keyword groups of _infer_category_from_keywords in the order they are
\* tried: <<keywords, category>>
KeywordGroups ==
    <<
       <<{<<"z","o","m","a","t","o">>, <<"s","w","i","g","g","y">>, <<"f","o","o","d"," ","d","e","l","i","v","e","r","y">>},
         "nightlife">>,
       <<{<<"d","i","n","e">>, <<"r","e","s","t","a","u","r","a","n","t">>, <<"t","r","u","f","f","l","e","s">>, <<"f","o","o","d">>, <<"m","e","a","l">>, <<"p","i","z","z","a">>, <<"b","u","r","g","e","r">>},
         "nightlife">>,
       <<{<<"c","a","f","e">>, <<"c","o","f","f","e","e">>, <<"c","u","p">>, <<"t","h","e","o","r","y">>, <<"b","a","r","i","s","t","a">>},
         "nightlife">>,
       <<{<<"p","u","b">>, <<"b","a","r">>, <<"c","l","u","b">>, <<"l","o","u","n","g","e">>, <<"p","a","r","t","y">>, <<"e","v","e","n","t">>},
         "nightlife">>,
       <<{<<"p","a","n">>, <<"p","a","a","n">>, <<"b","e","e","d","a">>, <<"c","i","g","a","r","e","t","t","e">>},
         "nightlife">>,
       <<{<<"b","i","g","b","a","s","k","e","t">>, <<"b","l","i","n","k","i","t">>, <<"z","e","p","t","o">>, <<"d","m","a","r","t">>, <<"s","u","p","e","r","m","a","r","k","e","t">>, <<"g","r","o","c","e","r","y">>, <<"k","i","r","a","n","a">>, <<"p","r","o","v","i","s","i","o","n","s">>},
         "home_needs">>,
       <<{<<"b","e","s","c","o","m">>, <<"b","w","s","s","b">>, <<"t","s","s","p","d","c","l">>, <<"e","l","e","c","t","r","i","c","i","t","y">>, <<"p","o","w","e","r">>},
         "home_needs">>,
       <<{<<"w","a","t","e","r">>, <<"w","a","t","e","r"," ","b","i","l","l">>},
         "home_needs">>,
       <<{<<"l","p","g">>, <<"g","a","s">>, <<"c","y","l","i","n","d","e","r">>},
         "home_needs">>,
       <<{<<"a","p","a","r","t","m","e","n","t">>, <<"r","e","n","t">>, <<"s","o","c","i","e","t","y">>, <<"m","a","i","n","t","e","n","a","n","c","e">>, <<"p","r","o","p","e","r","t","y">>, <<"h","o","u","s","e">>, <<"f","l","a","t">>},
         "home_needs">>,
       <<{<<"u","b","e","r">>, <<"o","l","a">>, <<"r","a","p","i","d","o">>, <<"c","a","b">>, <<"t","a","x","i">>, <<"r","i","d","e">>},
         "transport">>,
       <<{<<"a","u","t","o">>, <<"r","i","c","k","s","h","a","w">>},
         "transport">>,
       <<{<<"m","e","t","r","o">>, <<"b","u","s">>, <<"t","r","a","i","n">>, <<"i","r","c","t","c">>, <<"r","a","i","l","w","a","y","s">>},
         "transport">>,
       <<{<<"i","n","d","i","g","o">>, <<"v","i","s","t","a","r","a">>, <<"a","i","r"," ","i","n","d","i","a">>, <<"a","k","a","s","a">>, <<"f","l","i","g","h","t">>, <<"a","i","r","l","i","n","e">>},
         "transport">>,
       <<{<<"h","o","t","e","l">>, <<"h","o","t","e","l","s">>, <<"r","e","s","o","r","t">>, <<"l","o","d","g","e">>, <<"i","n","n">>, <<"a","c","c","o","m","m","o","d","a","t","i","o","n">>, <<"t","a","j">>, <<"o","b","e","r","o","i">>, <<"i","t","c">>, <<"h","i","l","t","o","n">>, <<"m","a","r","r","i","o","t","t">>, <<"h","y","a","t","t">>, <<"o","y","o">>, <<"b","o","o","k","i","n","g">>, <<"s","t","a","y">>},
         "transport">>,
       <<{<<"f","u","e","l">>, <<"p","e","t","r","o","l">>, <<"d","i","e","s","e","l">>},
         "transport">>,
       <<{<<"f","a","s","t","a","g">>, <<"t","o","l","l">>, <<"n","h","a","i">>, <<"p","a","r","k","i","n","g">>},
         "transport">>,
       <<{<<"a","m","a","z","o","n">>, <<"f","l","i","p","k","a","r","t">>, <<"m","y","n","t","r","a">>, <<"a","j","i","o">>, <<"m","e","e","s","h","o">>},
         "shopping">>,
       <<{<<"c","r","o","m","a">>, <<"r","e","l","i","a","n","c","e"," ","d","i","g","i","t","a","l">>, <<"e","l","e","c","t","r","o","n","i","c","s">>, <<"g","a","d","g","e","t">>},
         "shopping">>,
       <<{<<"a","p","p","a","r","e","l">>, <<"c","l","o","t","h","i","n","g">>, <<"f","o","o","t","w","e","a","r">>, <<"s","h","i","r","t">>, <<"p","a","n","t">>, <<"d","r","e","s","s">>},
         "shopping">>,
       <<{<<"b","a","z","a","a","r">>, <<"m","a","l","l">>, <<"s","t","o","r","e">>, <<"s","h","o","p">>},
         "shopping">>,
       <<{<<"j","i","o">>, <<"a","i","r","t","e","l">>, <<"v","i">>, <<"v","o","d","a","f","o","n","e">>, <<"i","d","e","a">>, <<"b","s","n","l">>, <<"m","o","b","i","l","e">>, <<"r","e","c","h","a","r","g","e">>},
         "bills">>,
       <<{<<"b","r","o","a","d","b","a","n","d">>, <<"i","n","t","e","r","n","e","t">>, <<"j","i","o","f","i","b","e","r">>, <<"a","c","t">>, <<"h","a","t","h","w","a","y">>, <<"b","s","n","l"," ","f","t","t","h">>},
         "bills">>,
       <<{<<"t","a","t","a"," ","p","l","a","y">>, <<"d","t","h">>, <<"c","a","b","l","e">>, <<"d","i","s","h","t","v">>, <<"s","u","n"," ","d","i","r","e","c","t">>},
         "bills">>,
       <<{<<"c","r","e","d","i","t"," ","c","a","r","d">>, <<"c","c"," ","p","a","y","m","e","n","t">>, <<"c","a","r","d"," ","p","a","y","m","e","n","t">>, <<"c","a","r","d"," ","b","i","l","l">>},
         "bills">>,
       <<{<<"d","o","c","t","o","r">>, <<"h","o","s","p","i","t","a","l">>, <<"c","l","i","n","i","c">>, <<"c","o","n","s","u","l","t","a","t","i","o","n">>},
         "health">>,
       <<{<<"p","h","a","r","m","a","c","y">>, <<"m","e","d","i","c","i","n","e">>, <<"m","e","d","p","l","u","s">>, <<"a","p","o","l","l","o"," ","p","h","a","r","m","a","c","y">>},
         "health">>,
       <<{<<"d","i","a","g","n","o","s","t","i","c","s">>, <<"l","a","b">>, <<"t","h","y","r","o","c","a","r","e">>, <<"l","a","l"," ","p","a","t","h">>},
         "health">>,
       <<{<<"f","i","t","n","e","s","s">>, <<"g","y","m">>, <<"y","o","g","a">>},
         "health">>,
       <<{<<"l","o","a","n">>, <<"e","m","i">>, <<"p","e","r","s","o","n","a","l"," ","l","o","a","n">>, <<"h","o","m","e"," ","l","o","a","n">>, <<"c","a","r"," ","l","o","a","n">>},
         "loans">>,
       <<{<<"l","i","c">>, <<"h","d","f","c"," ","l","i","f","e">>, <<"s","b","i"," ","l","i","f","e">>, <<"i","n","s","u","r","a","n","c","e">>, <<"l","i","f","e"," ","i","n","s","u","r","a","n","c","e">>},
         "insurance">>,
       <<{<<"h","d","f","c"," ","r","d">>, <<"r","d"," ">>, <<"r","e","c","u","r","r","i","n","g"," ","d","e","p","o","s","i","t">>, <<"h","d","f","c"," ","m","f">>, <<"i","n","d","e","x"," ","f","u","n","d">>, <<"s","i","p">>, <<"m","u","t","u","a","l"," ","f","u","n","d">>, <<"i","n","v","e","s","t","m","e","n","t">>, <<"s","t","o","c","k","s">>, <<"s","h","a","r","e","s">>, <<"p","p","f">>, <<"f","d">>, <<"f","i","x","e","d"," ","d","e","p","o","s","i","t">>},
         "banks">>,
       <<{<<"i","n","c","o","m","e"," ","t","a","x">>, <<"t","d","s">>, <<"a","d","v","a","n","c","e"," ","t","a","x">>, <<"g","s","t">>, <<"p","r","o","p","e","r","t","y"," ","t","a","x">>},
         "govt_tax">>,
       <<{<<"t","r","a","f","f","i","c">>, <<"f","i","n","e">>, <<"c","h","a","l","l","a","n">>},
         "govt_tax">>
    >>

\* credit fallback: words that rule out a personal name
CreditNotPersonalWords ==
    { <<"e","n","t","e","r","p","r","i","s","e","s">>, <<"s","e","r","v","i","c","e","s">>,
      <<"s","o","l","u","t","i","o","n","s">>, <<"t","e","c","h","n","o","l","o","g","i","e","s">>,
      <<"p","r","i","v","a","t","e">>, <<"l","i","m","i","t","e","d">>, <<"h","o","t","e","l">>,
      <<"h","o","t","e","l","s">>, <<"r","e","s","o","r","t">>, <<"l","o","d","g","e">>,
      <<"i","n","d","u","s","t","r","i","e","s">>, <<"t","r","a","d","i","n","g">>,
      <<"t","r","a","d","e","r","s">>, <<"s","t","o","r","e">>, <<"s","h","o","p">>,
      <<"p","v","t">>, <<"l","t","d">>, <<"i","n","c">>, <<"c","o","r","p">>,
      <<"c","o","r","p","o","r","a","t","i","o","n">> }

\* credit fallback: common_names
CreditCommonNames ==
    { <<"a","b","h","i","n","a","v">>, <<"s","h","o","b","h","a">>,
      <<"v","a","s","a","n","t","h","a">>,
      <<"v","a","s","a","n","t","h","a","k","u","m","a","r","i">>,
      <<"y","a","s","h","w","a","n","t","h">>, <<"y","a","s","h","w","a","n","t">>,
      <<"s","r","i","r","a","m">>, <<"k","u","m","a","r","i">>, <<"k","i","r","a","n">>,
      <<"u","d","a","y">>, <<"n","a","v","a","l","g","a">>, <<"j","a","t","a","v","a","t","h">>,
      <<"s","h","a","i","k">>, <<"z","u","b","e","r">>, <<"m","o","h","a","m","m","a","d">>,
      <<"m","o","h","a","m","m","e","d">>, <<"s","a","m","e","e","r">>,
      <<"s","h","a","k","e","e","l">>, <<"a","r","i","f","a">>, <<"b","e","g","u","m">>,
      <<"g","u","r","a","j","a","l","a">>, <<"j","o","s","a","f">>,
      <<"p","a","t","h","l","a","v","a","t","h">>, <<"r","a","m","e","s","h">>,
      <<"p","i","t","t","a","l","a">>, <<"y","a","d","a","g","i","r","i">>,
      <<"i","p","p","a","l","u","i">>, <<"k","r","i","s","h","n","a","i","a","h">>,
      <<"s","a","n","d","e","e","p">>, <<"v","e","n","k","a","t","a">>,
      <<"h","a","n","u","m","a","n">>, <<"n","a","s","e","e","r">>, <<"m","a","l","l","a">>,
      <<"s","a","t","y","a">>, <<"s","r","i","n","i","v","a","s","a">>, <<"r","a","v","i">>,
      <<"s","r","i">>, <<"s","a","i">>, <<"t","e","j","a">>, <<"i","n","d","u","s","t","r">> }

\* credit fallback: company_keywords
CreditCompanyKeywords ==
    { <<"t","e","c","h","n","o","l","o","g","i","e","s">>,
      <<"t","e","c","h","n","o","l","o","g","y">>, <<"p","r","i","v","a","t","e">>,
      <<"l","i","m","i","t","e","d">>, <<"p","v","t">>, <<"l","t","d">>, <<"i","n","c">>,
      <<"c","o","r","p","o","r","a","t","i","o","n">>, <<"c","o","r","p">>,
      <<"i","n","d","u","s","t","r","i","e","s">>, <<"c","l","e","a","r","i","n","g">>,
      <<"n","s","e">>, <<"b","s","e">>, <<"n","s","e","c">> }

\* credit fallback: business_keywords
CreditBusinessKeywords ==
    { <<"e","n","t","e","r","p","r","i","s","e","s">>, <<"s","e","r","v","i","c","e","s">>,
      <<"s","o","l","u","t","i","o","n","s">>, <<"t","r","a","d","e","r","s">>,
      <<"s","t","o","r","e">>, <<"s","h","o","p">> }

\* _infer_category_from_keywords: words that rule out a personal name
InferNotPersonalWords ==
    { <<"e","n","t","e","r","p","r","i","s","e","s">>, <<"s","e","r","v","i","c","e","s">>,
      <<"s","o","l","u","t","i","o","n","s">>, <<"t","e","c","h","n","o","l","o","g","i","e","s">>,
      <<"p","r","i","v","a","t","e">>, <<"l","i","m","i","t","e","d">>, <<"h","o","t","e","l">>,
      <<"h","o","t","e","l","s">>, <<"r","e","s","o","r","t">>, <<"l","o","d","g","e">> }

\* _infer_category_from_keywords: common_names
InferCommonNames ==
    { <<"a","b","h","i","n","a","v">>, <<"s","h","o","b","h","a">>,
      <<"v","a","s","a","n","t","h","a">>,
      <<"v","a","s","a","n","t","h","a","k","u","m","a","r","i">>,
      <<"y","a","s","h","w","a","n","t","h">>, <<"y","a","s","h","w","a","n","t">>,
      <<"s","r","i","r","a","m">>, <<"k","u","m","a","r","i">>, <<"k","i","r","a","n">>,
      <<"u","d","a","y">>, <<"n","a","v","a","l","g","a">>, <<"j","a","t","a","v","a","t","h">>,
      <<"s","h","a","i","k">>, <<"z","u","b","e","r">>, <<"m","o","h","a","m","m","a","d">>,
      <<"m","o","h","a","m","m","e","d">>, <<"s","a","m","e","e","r">>,
      <<"s","h","a","k","e","e","l">>, <<"a","r","i","f","a">>, <<"b","e","g","u","m">>,
      <<"g","u","r","a","j","a","l","a">>, <<"j","o","s","a","f">>,
      <<"p","a","t","h","l","a","v","a","t","h">>, <<"r","a","m","e","s","h">>,
      <<"p","i","t","t","a","l","a">>, <<"y","a","d","a","g","i","r","i">>,
      <<"i","p","p","a","l","u","i">>, <<"k","r","i","s","h","n","a","i","a","h">>,
      <<"s","a","n","d","e","e","p">>, <<"v","e","n","k","a","t","a">>,
      <<"h","a","n","u","m","a","n">>, <<"n","a","s","e","e","r">>, <<"m","a","l","l","a">> }

\* _infer_category_from_keywords: travel and hotel keywords
InferHotelKeywords ==
    { <<"h","o","t","e","l">>, <<"h","o","t","e","l","s">>, <<"r","e","s","o","r","t">>,
      <<"l","o","d","g","e">>, <<"i","n","n">>,
      <<"a","c","c","o","m","m","o","d","a","t","i","o","n">>, <<"t","a","j">>,
      <<"o","b","e","r","o","i">>, <<"i","t","c">>, <<"h","i","l","t","o","n">>,
      <<"m","a","r","r","i","o","t","t">>, <<"h","y","a","t","t">>, <<"o","y","o">>,
      <<"b","o","o","k","i","n","g">>, <<"s","t","a","y">> }

\* _infer_category_from_keywords: credit card apps and payments
InferCardKeywords ==
    { <<"c","r","e","d">>, <<"a","m","e","r","i","c","a","n"," ","e","x","p","r","e","s","s">>,
      <<"a","m","e","x">>, <<"c","r","e","d","i","t"," ","c","a","r","d">>,
      <<"c","c"," ","p","a","y","m","e","n","t">>,
      <<"c","a","r","d"," ","p","a","y","m","e","n","t">> }

\* _infer_category_from_keywords: payment rails
InferRailKeywords ==
    { <<"u","p","i">>, <<"i","m","p","s">>, <<"n","e","f","t">>, <<"r","t","g","s">> }

\* _infer_category_from_keywords: business_keywords
InferBusinessKeywords ==
    { <<"e","n","t","e","r","p","r","i","s","e","s">>, <<"s","e","r","v","i","c","e","s">>,
      <<"s","o","l","u","t","i","o","n","s">>, <<"t","r","a","d","e","r","s">>,
      <<"s","t","o","r","e">>, <<"s","h","o","p">>, <<"p","a","c","k","a","g","e","s">>,
      <<"i","n","d","u","s","t","r","i","e","s">>, <<"t","r","a","d","i","n","g">>,
      <<"t","e","c","h","n","o","l","o","g","i","e","s">>, <<"p","r","i","v","a","t","e">>,
      <<"l","i","m","i","t","e","d">>, <<"p","v","t">>, <<"l","t","d">> }

\* _infer_category_from_keywords: company_keywords
InferCompanyKeywords ==
    { <<"t","e","c","h","n","o","l","o","g","i","e","s">>,
      <<"t","e","c","h","n","o","l","o","g","y">>, <<"p","r","i","v","a","t","e">>,
      <<"l","i","m","i","t","e","d">>, <<"p","v","t">>, <<"l","t","d">> }

\* the words look like a personal name: 2 to 4 of them and none of the
\* excluding words in the text
IsPersonalName(text, excluding) ==
    LET words == SplitWords(text)
    IN  Len(words) >= 2 /\ Len(words) <= 4 /\ ~ContainsAny(text, excluding)

\* the category of the first keyword group with a keyword in the text, None
\* when no group has one
FirstKeywordGroup(text) ==
    LET hits == {i \in 1..Len(KeywordGroups) : ContainsAny(text, KeywordGroups[i][1])}
    IN  IF hits = {} THEN None
        ELSE KeywordGroups[CHOOSE i \in hits : \A j \in hits : i <= j][2]

\* _infer_category_from_keywords
infer_category_from_keywords(text) ==
    IF text = <<>> THEN "shopping"
    ELSE LET text_lower == StrLower(text)
             personal   == IsPersonalName(text_lower, InferNotPersonalWords)
         IN  IF FirstKeywordGroup(text_lower) # None THEN FirstKeywordGroup(text_lower)
             ELSE IF personal /\ ContainsAny(text_lower, InferCommonNames) THEN "transfers"
             ELSE IF ~personal /\ ContainsAny(text_lower, InferHotelKeywords) THEN "travel"
             ELSE IF ContainsAny(text_lower, InferCardKeywords) THEN "bills"
             ELSE IF ContainsAny(text_lower, InferRailKeywords)
                  THEN IF ContainsAny(text_lower, InferBusinessKeywords) THEN "shopping"
                       ELSE IF ContainsAny(text_lower, InferCompanyKeywords) THEN "shopping"
                       ELSE "transfers"
             ELSE "shopping"

\* a credit fallback that ends in the default of the debits
CreditFallbackSpending(merchant_normalized, description) ==
    LET search_text == StrLower(IF merchant_normalized # <<>> THEN merchant_normalized
                                ELSE description)
    IN  IF ContainsAny(search_text, CreditCommonNames)
        THEN <<"shopping", "p2p_transfer">>
        ELSE <<"shopping", None>>

\* the keyword fallback for a credit: <<category_code, subcategory_code>>
CreditFallback(merchant_normalized, description) ==
    LET search_text    == StrLower(IF merchant_normalized # <<>> THEN merchant_normalized
                                   ELSE description)
        merchant_lower == StrLower(merchant_normalized)
    IN  IF \/ IsPersonalName(search_text, CreditNotPersonalWords)
           \/ ContainsAny(search_text, CreditCommonNames)
        THEN <<"transfers", "p2p_transfer">>
        ELSE IF ContainsAny(merchant_lower, CreditCompanyKeywords)
        THEN <<"income", "salary">>
        ELSE <<"transfers", "p2p_personal">>

\* the result of _extract_and_categorize
Categorized(merchant_norm, category_code, subcategory_code) ==
    [merchant_norm |-> merchant_norm, category_code |-> category_code,
     subcategory_code |-> subcategory_code]

\* steps 3 and 4 of _extract_and_categorize: the matched rule's category,
\* else the keyword fallback of the direction
CategorizeMatched(rule, matched, merchant_normalized, description, direction) ==
    IF matched /\ rule.category_code # None
    THEN Categorized(IF rule.merchant_name_norm # <<>> THEN rule.merchant_name_norm
                     ELSE merchant_normalized,
                     rule.category_code, rule.subcategory_code)
    ELSE IF direction = "credit"
    THEN Categorized(merchant_normalized,
                     CreditFallback(merchant_normalized, description)[1],
                     CreditFallback(merchant_normalized, description)[2])
    ELSE Categorized(merchant_normalized,
                     infer_category_from_keywords(
                         IF merchant_normalized # <<>> THEN merchant_normalized
                         ELSE description),
                     None)

\* match_merchant returned None
NoRule == [category_code |-> None, subcategory_code |-> None, merchant_name_norm |-> <<>>]

\* the rule a match returned
MatchedRule(rules, rule_match) ==
    IF rule_match.how = "none" THEN NoRule ELSE rules[rule_match.idx]

CategorizeRuleMatch(rules, rule_match, merchant_normalized, description, direction) ==
    CategorizeMatched(MatchedRule(rules, rule_match), rule_match.how # "none",
                      merchant_normalized, description, direction)

CategorizeNormalized(rules, merchant_normalized, description, direction) ==
    CategorizeRuleMatch(rules, match_merchant(rules, merchant_normalized, description),
                        merchant_normalized, description, direction)

\* _extract_and_categorize for a row that carries a merchant_raw other than
\* 'unknown' and 'nan' (every staging row of the model does, so the
\* extraction of the merchant from the description is not entered):
\* normalized merchant, category and subcategory
extract_and_categorize(rules, description, merchant_raw, direction) ==
    CategorizeNormalized(rules,
                         normalize_merchant_name(IF merchant_raw # <<>> THEN merchant_raw
                                                 ELSE description),
                         description, direction)


(***************************************************************************)
(* Bounds of the model and the values the operations are called with       *)
(***************************************************************************)
\* learn_from_edit calls in one behaviour
MaxLearns == 2

\* match_merchant calls in one behaviour
MaxMatches == 2


Tenants == {"t1"}

Scopes == Tenants \cup {None}

\* the callers of learn_from_edit, one call in flight each
Actors == {"a1", "a2"}

mAmzPay == <<"A","M","Z"," ","P","A","Y">>

mAmz == <<"A","M","Z">>

mAmzLower == <<"a","m","z">>

mAzmz == <<"A","Z","M","Z">>

dUpiAmz == <<"U","P","I","-","A","M","Z","-","7">>

CategoryCodes == {"shopping", "dining", "legacy", "transfers"}

\* spendsense.dim_category: code -> active
DimCategoryInit == [c \in CategoryCodes |-> c # "legacy"]

\* spendsense.dim_subcategory rows
DimSubcategoryRows ==
    { [subcategory_code |-> "online", category_code |-> "shopping", active |-> TRUE],
      [subcategory_code |-> "cafe",   category_code |-> "dining",   active |-> TRUE],
      [subcategory_code |-> "p2p_transfer", category_code |-> "transfers", active |-> TRUE],
      [subcategory_code |-> "buffet", category_code |-> "dining", active |-> FALSE] }

SubcategoryCodes == {r.subcategory_code : r \in DimSubcategoryRows}

\* seed rows of merchant_rules (source 'seed', global), created before the
\* behaviour starts
SeedRule(id, pri, applies, pat, cat, at) ==
    [rule_id |-> id, priority |-> pri, applies_to |-> applies, pattern_regex |-> pat,
     pattern_hash |-> pattern_hash(pat), category_code |-> cat, subcategory_code |-> None,
     created_by |-> None, tenant_id |-> None, source |-> "seed", active |-> TRUE,
     created_at |-> at]

SeedRules ==
    { SeedRule(1, 20, "merchant", [kind |-> "any", toks |-> <<mAmz>>], "shopping", 2),
      SeedRule(2, 15, "description", [kind |-> "any", toks |-> << <<"U","P","I">> >>], "dining", 1) }

\* a rule tenant t1 learned on an earlier day
EarlierLearnedRules ==
    { [SeedRule(3, 10, "merchant", [kind |-> "word", toks |-> << <<"A","M","Z">>, <<"P","A","Y">> >>], "dining", 3)
         EXCEPT !.tenant_id = "t1", !.created_by = "a1", !.source = "learned"] }

VARIABLES
    merchant_rules,   \* committed rows of spendsense.merchant_rules
    rule_cache,       \* pg_rules_client._cache: key -> entry
    now,              \* the clock, in seconds
    next_rule_id,     \* the next fresh rule_id (uuid4)
    learner,          \* per actor: the learn_from_edit call in flight
    learns,           \* learn_from_edit calls started so far
    reader,           \* the match_merchant call in flight or last finished
    matches,          \* match_merchant calls started so far
    txn_fact,         \* spendsense.txn_fact rows, each with the transaction that holds it
    txn_enriched,     \* spendsense.txn_enriched rows
    dim_category,     \* spendsense.dim_category rows
    load,             \* per run: the load_staging_for_user call
    faults,           \* store failures so far
    edit,             \* per request: the update_transaction call
    normalizer        \* the normalize_merchant_name call and what it returned

rule_vars == <<merchant_rules, rule_cache, now, next_rule_id, learner, learns, reader, matches>>

load_vars == <<txn_fact, txn_enriched, dim_category, load, faults, edit, normalizer>>

vars == <<rule_vars, load_vars>>

\* what a load leaves alone of the rule side (it reads the rules and clears
\* the cache)
rule_rest == <<merchant_rules, now, next_rule_id, learner, learns, reader, matches>>

CacheKeys == {CacheKey(t) : t \in Scopes}

IdleLearner ==
    [pc |-> "idle", user_id |-> None, merchant_name |-> <<>>, description |-> <<>>, category_code |-> None,
     subcategory_code |-> None, tenant_id |-> None, pending |-> {}, replaces |-> 0, ret |-> 0]

IdleReader ==
    [pc |-> "idle", tenant_id |-> None, merchant_name |-> <<>>, description |-> <<>>,
     rules |-> <<>>, result |-> NoMatch]

RulesInit ==
    /\ merchant_rules = SeedRules \cup EarlierLearnedRules
    /\ rule_cache = [k \in CacheKeys |-> NoEntry]
    /\ now = 10
    /\ next_rule_id = 100
    /\ learner = [a \in Actors |-> IdleLearner]
    /\ learns = 0
    /\ reader = IdleReader
    /\ matches = 0


(***************************************************************************)
(* Learning service (learn_from_edit, upsert_rule, _check_rate_limit)      *)
(***************************************************************************)
\* datetime.utcnow() with the time of day set to 0:00
TodayStart(t) == t - (t % 86400)

\* _check_rate_limit with count <= MAX_RULES_PER_USER_PER_DAY
check_rate_limit_inclusive(store, user_id, tenant_id, t) ==
    Cardinality({r \in store : /\ r.created_by = user_id
                               /\ r.source = "learned"
                               /\ r.created_at >= TodayStart(t)
                               /\ (tenant_id # None => r.tenant_id = tenant_id)})
        <= MAX_RULES_PER_USER_PER_DAY

\* _check_rate_limit: TRUE when the user is under the daily limit
check_rate_limit(store, user_id, tenant_id, t) ==
    Cardinality({r \in store : /\ r.created_by = user_id
                               /\ r.source = "learned"
                               /\ r.created_at >= TodayStart(t)
                               /\ (tenant_id # None => r.tenant_id = tenant_id)})
        < MAX_RULES_PER_USER_PER_DAY

\* the category lookup without the filter on active
CategoryListed(dim, category_code) == category_code \in DOMAIN dim

\* the category exists and is active
CategoryOk(dim, category_code) == category_code \in DOMAIN dim /\ dim[category_code]

\* the subcategory lookup without the filter on the category
SubcategoryOkAnyCategory(subcategory_code, category_code) ==
    \E r \in DimSubcategoryRows : r.subcategory_code = subcategory_code /\ r.active

\* the subcategory exists, is active and belongs to the category
SubcategoryOk(subcategory_code, category_code) ==
    \E r \in DimSubcategoryRows : /\ r.subcategory_code = subcategory_code
                                  /\ r.category_code = category_code
                                  /\ r.active

\* the row of the unique index (tenant_id, applies_to, pattern_hash) that an
\* INSERT of these values conflicts with; SQL compares a NULL tenant_id equal
\* to nothing, so a global row conflicts with none
ConflictRows(store, tenant_id, applies_to, hash) ==
    {r \in store : /\ tenant_id # None
                   /\ r.tenant_id = tenant_id
                   /\ r.applies_to = applies_to
                   /\ r.pattern_hash = hash}

\* the row as INSERT ... ON CONFLICT DO UPDATE leaves it
UpsertedRow(store, id, applies_to, pattern, category_code, subcategory_code, priority, created_by, tenant_id, t) ==
    LET hit == ConflictRows(store, tenant_id, applies_to, pattern_hash(pattern))
    IN  IF hit = {}
        THEN [rule_id |-> id, priority |-> priority, applies_to |-> applies_to,
              pattern_regex |-> pattern, pattern_hash |-> pattern_hash(pattern),
              category_code |-> category_code, subcategory_code |-> subcategory_code,
              created_by |-> created_by, tenant_id |-> tenant_id, source |-> "learned",
              active |-> TRUE, created_at |-> t]
        ELSE [(CHOOSE r \in hit : TRUE) EXCEPT
                 !.category_code = category_code,
                 !.subcategory_code = subcategory_code,
                 !.priority = priority,
                 !.active = TRUE,
                 !.created_by = created_by,
                 !.source = "learned"]

\* the pattern learn_from_edit writes and what it applies to: the merchant
\* pattern when the merchant name yields one, else the description pattern
LearnedPattern(merchant_name, description) ==
    IF merchant_name # <<>> /\ merchant_pattern(merchant_name) # NoPattern
    THEN [applies_to |-> "merchant", pattern |-> merchant_pattern(merchant_name),
          priority |-> USER_RULE_PRIORITY]
    ELSE IF description # <<>> /\ desc_pattern(description) # NoPattern
    THEN [applies_to |-> "description", pattern |-> desc_pattern(description),
          priority |-> DESC_RULE_PRIORITY]
    ELSE [applies_to |-> None, pattern |-> NoPattern, priority |-> 0]

\* the corrections learn_from_edit is called with: <<merchant_name,
\* description, category_code, subcategory_code, tenant_id>>
LearnCalls ==
    { <<mAmzPay, dUpiAmz, "shopping", "online", None>>,
      <<mAmzPay, dUpiAmz, "dining", None, None>>,
      <<mAmz, dUpiAmz, "shopping", None, None>>,
      <<mAmzPay, dUpiAmz, "dining", None, "t1">> }

\* learn_from_edit up to the upsert: the guards and the pattern synthesis
\* a is the call, user_id the user it is made for, under_limit what
\* _check_rate_limit returned
LearnCallAs(a, user_id, args, under_limit) ==
    LET m    == args[1]
        d    == args[2]
        c    == args[3]
        sc   == args[4]
        t    == args[5]
        call == [IdleLearner EXCEPT !.user_id = user_id,
                                    !.merchant_name = m, !.description = d,
                                    !.category_code = c, !.subcategory_code = sc,
                                    !.tenant_id = t]
        go   == /\ c # None
                /\ under_limit
                /\ CategoryOk(DimCategoryInit, c)
                /\ LearnedPattern(m, d).pattern # NoPattern
    IN  learner' = [learner EXCEPT ![a] =
                      IF go THEN [call EXCEPT !.pc = "upsert"]
                      ELSE [call EXCEPT !.pc = "done"]]

\* the call of the user the actor names
LearnCall(a, args, under_limit) == LearnCallAs(a, a, args, under_limit)

LearnStart(a) ==
    /\ learner[a].pc \in {"idle", "done"}
    /\ learns < MaxLearns
    /\ \E args \in LearnCalls :
          LearnCall(a, args, check_rate_limit(merchant_rules, a, args[5], now))
    /\ learns' = learns + 1
    /\ UNCHANGED <<merchant_rules, rule_cache, now, next_rule_id, reader, matches>>
    /\ UNCHANGED load_vars

\* another call's uncommitted upsert holds the index entry this one needs
UpsertBlocked(a) ==
    LET me == learner[a]
        lp == LearnedPattern(me.merchant_name, me.description)
    IN  /\ me.tenant_id # None
        /\ \E b \in Actors \ {a} :
              /\ learner[b].pc = "commit"
              /\ \E r \in learner[b].pending : /\ r.tenant_id = me.tenant_id
                                               /\ r.applies_to = lp.applies_to
                                               /\ r.pattern_hash = pattern_hash(lp.pattern)

\* session.execute(stmt) of upsert_rule
LearnUpsert(a) ==
    /\ learner[a].pc = "upsert"
    /\ ~UpsertBlocked(a)
    /\ LET me  == learner[a]
           lp  == LearnedPattern(me.merchant_name, me.description)
           sub == IF me.subcategory_code # None
                     /\ SubcategoryOk(me.subcategory_code, me.category_code)
                  THEN me.subcategory_code ELSE None
           row == UpsertedRow(merchant_rules, next_rule_id, lp.applies_to, lp.pattern,
                              me.category_code, sub, lp.priority, me.user_id, me.tenant_id, now)
       IN  /\ learner' = [learner EXCEPT ![a] =
                            [me EXCEPT !.pc = "commit", !.pending = {row},
                                       !.replaces = IF row.rule_id = next_rule_id THEN 0 ELSE row.rule_id,
                                       !.ret = row.rule_id]]
           /\ next_rule_id' = IF row.rule_id = next_rule_id THEN next_rule_id + 1 ELSE next_rule_id
    /\ now' = now + 1
    /\ UNCHANGED <<merchant_rules, rule_cache, learns, reader, matches>>
    /\ UNCHANGED load_vars

\* session.commit()
LearnCommit(a) ==
    /\ learner[a].pc = "commit"
    /\ merchant_rules' = {r \in merchant_rules : r.rule_id # learner[a].replaces}
                            \cup learner[a].pending
    /\ learner' = [learner EXCEPT ![a] = [@ EXCEPT !.pc = "clear", !.pending = {}]]
    /\ UNCHANGED <<rule_cache, now, next_rule_id, learns, reader, matches>>
    /\ UNCHANGED load_vars

\* clear_cache() and the return of the rule id
LearnClear(a) ==
    /\ learner[a].pc = "clear"
    /\ rule_cache' = [k \in DOMAIN rule_cache |-> NoEntry]
    /\ learner' = [learner EXCEPT ![a] = [IdleLearner EXCEPT !.pc = "done", !.ret = learner[a].ret]]
    /\ UNCHANGED <<merchant_rules, now, next_rule_id, learns, reader, matches>>
    /\ UNCHANGED load_vars

(***************************************************************************)
(* A match_merchant call: get_merchant_rules, then the matching            *)
(***************************************************************************)
\* the texts match_merchant is called with: <<merchant_name, description>>
MatchInputs == { <<mAmzPay, dUpiAmz>>, <<mAzmz, <<>>>> }

Matched(t, m, d, rules) ==
    [pc |-> "done", tenant_id |-> t, merchant_name |-> m, description |-> d,
     rules |-> rules, result |-> match_merchant(rules, m, d)]

\* the cache entry is valid: the cached list is matched, and the rule the
\* regex loop returns is written to in that list
MatchCachedIn(scopes, inputs) ==
    /\ reader.pc = "idle"
    /\ matches < MaxMatches
    /\ matches' = matches + 1
    /\ \E t \in scopes, in \in inputs :
          /\ IsCacheValid(rule_cache, CacheKey(t), now)
          /\ reader' = Matched(t, in[1], in[2], rule_cache[CacheKey(t)].data)
          /\ rule_cache' = MatchWrites(rule_cache, CacheKey(t), reader'.result, in[1], in[2])
    /\ UNCHANGED <<merchant_rules, now, next_rule_id, learner, learns>>
    /\ UNCHANGED load_vars

MatchCached == MatchCachedIn(Scopes, MatchInputs)

\* no valid entry: the store is queried (the texts to match are not read
\* before the list is there, so they are drawn when it is matched)
MatchQueryIn(scopes) ==
    /\ reader.pc = "idle"
    /\ matches < MaxMatches
    /\ \E t \in scopes :
          /\ ~IsCacheValid(rule_cache, CacheKey(t), now)
          /\ reader' = [IdleReader EXCEPT !.pc = "fetched", !.tenant_id = t,
                                          !.rules = QueryRules(merchant_rules, t)]
    /\ matches' = matches + 1
    /\ UNCHANGED <<merchant_rules, rule_cache, now, next_rule_id, learner, learns>>
    /\ UNCHANGED load_vars

MatchQuery == MatchQueryIn(Scopes)

\* the queried list is cached, unless the call passed use_cache=False, and
\* matched
MatchFinishIn(inputs) ==
    /\ reader.pc \in {"fetched", "uncached"}
    /\ \E in \in inputs :
          /\ reader' = Matched(reader.tenant_id, in[1], in[2], reader.rules)
          /\ rule_cache' = IF reader.pc = "fetched"
                           THEN MatchWrites(SetCache(rule_cache, CacheKey(reader.tenant_id),
                                                     reader.rules, now),
                                            CacheKey(reader.tenant_id), reader'.result,
                                            in[1], in[2])
                           ELSE rule_cache
    /\ UNCHANGED <<merchant_rules, now, next_rule_id, learner, learns, matches>>
    /\ UNCHANGED load_vars

MatchFinish == MatchFinishIn(MatchInputs)

\* match_merchant returns to its caller
MatchReturn ==
    /\ reader.pc = "done"
    /\ reader' = IdleReader
    /\ UNCHANGED <<merchant_rules, rule_cache, now, next_rule_id, learner, learns, matches>>
    /\ UNCHANGED load_vars

\* the instant a match_merchant call returns: nothing else moves in it
Returning == reader.pc = "done"

(***************************************************************************)
(* Staging-to-fact loader (etl.load_staging_for_user)                      *)
(***************************************************************************)
\* staging rows of one load
MaxRows == 4

\* store failures in one behaviour
MaxFaults == 1

\* the loader runs, one call of load_staging_for_user each
Runs == {"A", "B"}

User == "u1"

mAmzPayLower == StrLower(mAmzPay)

mOla == <<"O","L","A">>

StagingRow(id, amount, direction, merchant_raw) ==
    [staging_id |-> id, user_id |-> User, txn_date |-> 1, amount |-> amount,
     direction |-> direction, description_raw |-> <<>>, merchant_raw |-> merchant_raw,
     account_ref |-> <<>>]

\* txn_staging of the user, parsed_ok rows: rows 1 and 2 differ in the raw
\* merchant only and normalize to the same one; rows 3 and 4 fall to a
\* category dim_category does not hold; row 5 is a credit no rule matches
StagingUniverse ==
    { StagingRow(1, 100, "debit", mAmzPay),
      StagingRow(2, 100, "debit", mAmzPayLower),
      StagingRow(3, 40, "debit", mOla),
      StagingRow(4, 55, "debit", mOla),
      StagingRow(5, 70, "credit", mOla) }

StagingRows == {s \in StagingUniverse : s.staging_id <= MaxRows}

StagingIds == {s.staging_id : s \in StagingRows}

StagingById(id) == CHOOSE s \in StagingRows : s.staging_id = id

\* spendsense.fn_txn_fact_fp: a hash of its seven arguments, taken to be
\* free of collisions
fn_txn_fact_fp(u, d, a, dir, desc, m, acct) == <<u, d, a, dir, desc, m, acct>>

\* the fingerprint with the raw merchant in place of the normalized one
LoaderFpRawMerchant(s, merchant_norm) ==
    fn_txn_fact_fp(s.user_id, s.txn_date, s.amount, s.direction, s.description_raw,
                   s.merchant_raw, s.account_ref)

\* the fingerprint the loader computes for a staging row
LoaderFp(s, merchant_norm) ==
    fn_txn_fact_fp(s.user_id, s.txn_date, s.amount, s.direction, s.description_raw,
                   merchant_norm, s.account_ref)

\* a dedupe_fp that is NULL
NullFp == <<>>

\* the UPDATE of dedupe_fp left out
StoredFpUnset(fp) == NullFp

\* the value UPDATE ... SET dedupe_fp = :fp stores
StoredFp(fp) == fp

\* xact of a row: "committed", or the run whose open transaction wrote it
Committed(rows) == {x \in rows : x.xact = "committed"}

\* a run that sees only the rows of its own transaction
VisibleOwn(rows, run) == {x \in rows : x.xact = run}

\* the rows a run's statements see (READ COMMITTED and its own writes)
VisibleTo(rows, run) == {x \in rows : x.xact \in {"committed", run}}

\* the rows other open transactions hold
HeldByOthers(rows, run) == {x \in rows : x.xact \notin {"committed", run}}

NoRow == [staging_id |-> 0, dedupe_fp |-> NullFp, category_code |-> None, subcategory_code |-> None]

\* ret of a call that has not returned a value
NoReturn == -1

\* a call for a user: skipped counts the rows the except branch skipped, after holds
\* the runs that had returned when this one started
IdleLoad == [pc |-> "idle", user_id |-> User, todo |-> {}, cur |-> NoRow, inserted |-> 0,
             skipped |-> 0, ret |-> NoReturn, after |-> {}]

\* the update_transaction requests, one call each
Requests == {"r1", "r2"}

\* a request: the category and subcategory it resolved from its payload,
\* the enrichment columns its session loaded (seen), the HTTP status of
\* its response, 0 while it has none, and what learn_from_edit returned to
\* it, 0 for None
IdleEdit == [pc |-> "idle", category_code |-> None, subcategory_code |-> None,
             seen |-> <<None, None>>, status |-> 0, rule_id |-> 0]

\* no normalize_merchant_name call under observation
IdleNormalizer == [pc |-> "idle", merchant |-> <<>>, normalized |-> <<>>, second |-> <<>>, again |-> <<>>]

LoadInit ==
    /\ txn_fact = {}
    /\ txn_enriched = {}
    /\ dim_category = {[category_code |-> c, active |-> DimCategoryInit[c], xact |-> "committed"] :
                          c \in CategoryCodes}
    /\ load = [r \in Runs |-> IdleLoad]
    /\ faults = 0
    /\ edit = [r \in Requests |-> IdleEdit]
    /\ normalizer = IdleNormalizer

TxnId(run, staging_id) == <<run, staging_id>>

\* the TxnFact the loader adds for a staging row
FactRow(run, s, merchant_norm, fp) ==
    [txn_id |-> TxnId(run, s.staging_id), user_id |-> s.user_id, txn_date |-> s.txn_date,
     amount |-> s.amount, direction |-> s.direction, description |-> s.description_raw,
     merchant_name_norm |-> merchant_norm, account_ref |-> s.account_ref,
     dedupe_fp |-> fp, xact |-> run]

\* session.rollback() in place of savepoint.rollback()
WithoutRun(rows, run, staging_id) == {x \in rows : x.xact # run}

\* savepoint.rollback(): the rows the current staging row wrote are gone
WithoutRow(rows, run, staging_id) == {x \in rows : x.txn_id # TxnId(run, staging_id)}

\* continue with inserted += 1 on every path
NextRowCounting(run, staging_id, counted, failed) ==
    [load EXCEPT ![run].pc = "loop",
                 ![run].todo = @ \ {staging_id},
                 ![run].cur = NoRow,
                 ![run].inserted = @ + 1,
                 ![run].skipped = @ + failed]

\* continue: the loop goes on with the next row; counted is 1 after
\* inserted += 1, failed is 1 after the except branch that skips the row
NextRow(run, staging_id, counted, failed) ==
    [load EXCEPT ![run].pc = "loop",
                 ![run].todo = @ \ {staging_id},
                 ![run].cur = NoRow,
                 ![run].inserted = @ + counted,
                 ![run].skipped = @ + failed]

\* the outer handler with a commit in place of the rollback
AbortCommitting(run) ==
    /\ txn_fact' = {[x EXCEPT !.xact = IF @ = run THEN "committed" ELSE @] : x \in txn_fact}
    /\ txn_enriched' = {[x EXCEPT !.xact = IF @ = run THEN "committed" ELSE @] : x \in txn_enriched}
    /\ dim_category' = {[x EXCEPT !.xact = IF @ = run THEN "committed" ELSE @] : x \in dim_category}
    /\ load' = [load EXCEPT ![run].pc = "raised", ![run].cur = NoRow]

\* a rollback that leaves the categories the run created
AbortKeepingCategories(run) ==
    /\ txn_fact' = {x \in txn_fact : x.xact # run}
    /\ txn_enriched' = {x \in txn_enriched : x.xact # run}
    /\ dim_category' = {[x EXCEPT !.xact = IF @ = run THEN "committed" ELSE @] : x \in dim_category}
    /\ load' = [load EXCEPT ![run].pc = "raised", ![run].cur = NoRow]

\* session.rollback() of the outer handler, and the error raised again
Abort(run) ==
    /\ txn_fact' = {x \in txn_fact : x.xact # run}
    /\ txn_enriched' = {x \in txn_enriched : x.xact # run}
    /\ dim_category' = {x \in dim_category : x.xact # run}
    /\ load' = [load EXCEPT ![run].pc = "raised", ![run].cur = NoRow]

\* the category the enrichment is written with
EnrichCategory(category_code) == IF category_code # None THEN category_code ELSE "others"

\* the foreign key of txn_enriched.subcategory_code
SubcategoryFkOk(subcategory_code) ==
    subcategory_code = None \/ subcategory_code \in SubcategoryCodes

\* the row's savepoint from ensure_category on, the fact written with its
\* fingerprint (facts): the INSERT of a missing category waits for an open
\* transaction that inserted the same code; the enrichment is flushed by
\* savepoint.commit(), where a foreign key violation raises an
\* IntegrityError, which counts as a duplicate: the savepoint is rolled back
\* and the loop goes on
FromCategory(run, cur, facts) ==
    LET code    == EnrichCategory(cur.category_code)
        exists  == \E d \in VisibleTo(dim_category, run) : d.category_code = code
        held    == \E d \in HeldByOthers(dim_category, run) : d.category_code = code
        created == [category_code |-> code, active |-> TRUE, xact |-> run]
        enrich  == [txn_id |-> TxnId(run, cur.staging_id), category_code |-> code,
                    subcategory_code |-> cur.subcategory_code,
                    rule_confidence |-> IF cur.subcategory_code # None THEN 100 ELSE 80,
                    xact |-> run]
    IN  IF ~exists /\ held
        THEN /\ txn_fact' = facts
             /\ load' = [load EXCEPT ![run].pc = "wait_cat", ![run].cur = cur]
             /\ UNCHANGED <<txn_enriched, dim_category>>
        ELSE IF SubcategoryFkOk(cur.subcategory_code)
        THEN /\ txn_fact' = facts
             /\ dim_category' = IF exists THEN dim_category ELSE dim_category \cup {created}
             /\ txn_enriched' = txn_enriched \cup {enrich}
             /\ load' = NextRow(run, cur.staging_id, 1, 0)
        ELSE /\ txn_fact' = WithoutRow(facts, run, cur.staging_id)
             /\ load' = NextRow(run, cur.staging_id, 0, 1)
             /\ UNCHANGED <<txn_enriched, dim_category>>

\* the call starts: the rows query
LoadStart(run) ==
    /\ load[run].pc = "idle"
    /\ load' = [load EXCEPT ![run] =
                  [IdleLoad EXCEPT !.pc = "loop", !.todo = StagingIds,
                                   !.after = {o \in Runs : load[o].pc = "returned"}]]
    /\ UNCHANGED <<txn_fact, txn_enriched, dim_category, faults, rule_cache>>
    /\ UNCHANGED <<rule_rest, edit, normalizer>>

\* the row the run is at: its fingerprint and categorization
CurRow(s, c, fp) ==
    [staging_id |-> s.staging_id, dedupe_fp |-> fp, category_code |-> c.category_code,
     subcategory_code |-> c.subcategory_code]

\* the loop body after the fingerprint: the row is skipped when a fact with
\* the fingerprint is visible, else the fact is written in a savepoint, and
\* the UPDATE of dedupe_fp waits for an open transaction that holds the same
\* fingerprint
LoadRowFact(run, s, merchant_norm, cur) ==
    IF \E f \in VisibleTo(txn_fact, run) : f.dedupe_fp = cur.dedupe_fp
    THEN /\ load' = NextRow(run, s.staging_id, 0, 0)
         /\ UNCHANGED <<txn_fact, txn_enriched, dim_category>>
    ELSE IF \E f \in HeldByOthers(txn_fact, run) : f.dedupe_fp = StoredFp(cur.dedupe_fp)
    THEN /\ txn_fact' = txn_fact \cup {FactRow(run, s, merchant_norm, NullFp)}
         /\ load' = [load EXCEPT ![run].pc = "wait_fp", ![run].cur = cur]
         /\ UNCHANGED <<txn_enriched, dim_category>>
    ELSE FromCategory(run, cur,
                      txn_fact \cup {FactRow(run, s, merchant_norm, StoredFp(cur.dedupe_fp))})

LoadRowCategorized(run, s, c) ==
    LoadRowFact(run, s, c.merchant_norm, CurRow(s, c, LoaderFp(s, c.merchant_norm)))

\* get_merchant_rules(tenant_id=None, use_cache=True) as the loader calls it
LoadRules ==
    IF IsCacheValid(rule_cache, CacheKey(None), now)
    THEN rule_cache[CacheKey(None)].data
    ELSE QueryRules(merchant_rules, None)

\* _extract_and_categorize over the rules: the match is made on the list
\* the cache holds, which match_merchant writes to
LoadRowRules(run, s, rules) ==
    LET merchant_normalized == normalize_merchant_name(IF s.merchant_raw # <<>>
                                                       THEN s.merchant_raw
                                                       ELSE s.description_raw)
        cached == IF IsCacheValid(rule_cache, CacheKey(None), now) THEN rule_cache
                  ELSE SetCache(rule_cache, CacheKey(None), rules, now)
    IN  \E rule_match \in {match_merchant(rules, merchant_normalized, s.description_raw)} :
           /\ rule_cache' = MatchWrites(cached, CacheKey(None), rule_match,
                                        merchant_normalized, s.description_raw)
           /\ LoadRowCategorized(run, s,
                                 CategorizeRuleMatch(rules, rule_match, merchant_normalized,
                                                     s.description_raw, s.direction))

\* one turn of the loop, up to the first statement that has to wait: the
\* row is categorized with the cached global rules and fingerprinted
LoadRowIn(run, staging) ==
    /\ load[run].pc = "loop"
    /\ \E s \in staging :
          /\ s.staging_id \in load[run].todo
          /\ LoadRowRules(run, s, LoadRules)
    /\ UNCHANGED faults
    /\ UNCHANGED <<rule_rest, edit, normalizer>>

LoadRow(run) == LoadRowIn(run, StagingRows)

\* the fact of the row the run is at, as its savepoint holds it
CurFact(run) == CHOOSE f \in txn_fact : f.txn_id = TxnId(run, load[run].cur.staging_id)

\* the UPDATE of dedupe_fp stops waiting: the unique index
\* ux_txn_fact_dedupe_fp raises an IntegrityError when the other transaction
\* committed the fingerprint, and lets the update through when it rolled back
LoadFpWake(run) ==
    /\ load[run].pc = "wait_fp"
    /\ ~\E f \in HeldByOthers(txn_fact, run) : f.dedupe_fp = load[run].cur.dedupe_fp
    /\ IF \E f \in Committed(txn_fact) : f.dedupe_fp = load[run].cur.dedupe_fp
       THEN /\ txn_fact' = WithoutRow(txn_fact, run, load[run].cur.staging_id)
            /\ load' = NextRow(run, load[run].cur.staging_id, 0, 1)
            /\ UNCHANGED <<txn_enriched, dim_category>>
       ELSE FromCategory(run, load[run].cur,
                         (txn_fact \ {CurFact(run)})
                            \cup {[CurFact(run) EXCEPT !.dedupe_fp = load[run].cur.dedupe_fp]})
    /\ UNCHANGED <<faults, rule_cache>>
    /\ UNCHANGED <<rule_rest, edit, normalizer>>

\* the INSERT into dim_category stops waiting: the primary key raises an
\* IntegrityError when the other transaction committed the code
LoadCatWake(run) ==
    /\ load[run].pc = "wait_cat"
    /\ ~\E d \in HeldByOthers(dim_category, run) :
           d.category_code = EnrichCategory(load[run].cur.category_code)
    /\ IF \E d \in Committed(dim_category) :
             d.category_code = EnrichCategory(load[run].cur.category_code)
       THEN /\ txn_fact' = WithoutRow(txn_fact, run, load[run].cur.staging_id)
            /\ load' = NextRow(run, load[run].cur.staging_id, 0, 1)
            /\ UNCHANGED <<txn_enriched, dim_category>>
       ELSE FromCategory(run, load[run].cur, txn_fact)
    /\ UNCHANGED <<faults, rule_cache>>
    /\ UNCHANGED <<rule_rest, edit, normalizer>>

\* the run waits for a lock the other run's open transaction holds
WaitsFor(run, other) ==
    \/ /\ load[run].pc = "wait_fp"
       /\ \E f \in txn_fact : f.xact = other /\ f.dedupe_fp = load[run].cur.dedupe_fp
    \/ /\ load[run].pc = "wait_cat"
       /\ \E d \in dim_category :
             d.xact = other /\ d.category_code = EnrichCategory(load[run].cur.category_code)

\* two runs wait for each other and the store ends the wait of this one
\* with 'deadlock detected': on the UPDATE of dedupe_fp the text of the
\* error names dedupe_fp, which counts as a duplicate; on the INSERT into
\* dim_category it does not, and the error is raised again
LoadDeadlock(run) ==
    /\ \E other \in Runs \ {run} : WaitsFor(run, other) /\ WaitsFor(other, run)
    /\ IF load[run].pc = "wait_fp"
       THEN /\ txn_fact' = WithoutRow(txn_fact, run, load[run].cur.staging_id)
            /\ load' = NextRow(run, load[run].cur.staging_id, 0, 1)
            /\ UNCHANGED <<txn_enriched, dim_category>>
       ELSE Abort(run)
    /\ UNCHANGED <<faults, rule_cache>>
    /\ UNCHANGED <<rule_rest, edit, normalizer>>

\* the store fails under a statement of the loop (the connection is lost, a
\* statement times out): an OperationalError that is no duplicate
LoadFault(run) ==
    /\ load[run].pc = "loop"
    /\ load[run].todo # {}
    /\ faults < MaxFaults
    /\ faults' = faults + 1
    /\ Abort(run)
    /\ UNCHANGED rule_cache
    /\ UNCHANGED <<rule_rest, edit, normalizer>>

\* session.commit() after the loop, clear_cache() and the return of the
\* count (the refresh of KPIs and views that follows writes none of the
\* tables of the model and its failures are swallowed)
LoadCommit(run) ==
    /\ load[run].pc = "loop"
    /\ load[run].todo = {}
    /\ txn_fact' = {[x EXCEPT !.xact = IF @ = run THEN "committed" ELSE @] : x \in txn_fact}
    /\ txn_enriched' = {[x EXCEPT !.xact = IF @ = run THEN "committed" ELSE @] : x \in txn_enriched}
    /\ dim_category' = {[x EXCEPT !.xact = IF @ = run THEN "committed" ELSE @] : x \in dim_category}
    /\ rule_cache' = [k \in CacheKeys |-> NoEntry]
    /\ load' = [load EXCEPT ![run].pc = "returned", ![run].ret = load[run].inserted]
    /\ UNCHANGED faults
    /\ UNCHANGED <<rule_rest, edit, normalizer>>

LoadNext ==
    \/ \E run \in Runs : LoadStart(run)
    \/ \E run \in Runs : LoadRow(run)
    \/ \E run \in Runs : LoadFpWake(run)
    \/ \E run \in Runs : LoadCatWake(run)
    \/ \E run \in Runs : LoadDeadlock(run)
    \/ \E run \in Runs : LoadFault(run)
    \/ \E run \in Runs : LoadCommit(run)

(***************************************************************************)
(* learn_from_edit over calls its guards reject and a store that holds a   *)
(* seed rule of priority 10 and an actor at the daily limit                *)
(***************************************************************************)
mAb == <<"A","B">>

mDashes == <<"-","-","-">>

dUpi7 == <<"U","P","I","-","7">>

dUpiAmzPay == <<"U","P","I"," ","A","M","Z"," ","P","A","Y">>

dUpiPayment == <<"U","P","I"," ","p","a","y","m","e","n","t">>

DigitSeq == <<"0","1","2","3","4","5","6","7","8","9">>

\* the i-th of the rules actor a2 learned today in tenant t1, since then
\* deactivated: _check_rate_limit counts them, get_merchant_rules skips them
BusyRule(i) ==
    [SeedRule(1000 + i, USER_RULE_PRIORITY, "merchant",
              [kind |-> "word", toks |-> << <<"R", DigitSeq[(i \div 10) + 1], DigitSeq[(i % 10) + 1]>> >>],
              "shopping", 5)
        EXCEPT !.tenant_id = "t1", !.created_by = "a2", !.source = "learned", !.active = FALSE]

BusyRules == {BusyRule(i) : i \in 1..MAX_RULES_PER_USER_PER_DAY}

\* a global seed rule of priority 10 whose pattern is merchant_pattern('AMZ')
SeedRuleAmz == SeedRule(4, 10, "merchant", [kind |-> "word", toks |-> <<mAmz>>], "dining", 4)

\* the same seed pattern owned by tenant t1
SeedRuleAmzT1 ==
    [SeedRule(5, 10, "merchant", [kind |-> "word", toks |-> <<mAmz>>], "dining", 5)
        EXCEPT !.tenant_id = "t1"]

LearnInitRules ==
    SeedRules \cup EarlierLearnedRules \cup {SeedRuleAmz, SeedRuleAmzT1} \cup BusyRules

\* the calls of each actor: <<merchant_name, description, category_code,
\* subcategory_code, tenant_id>>
WideLearnCalls(a) ==
    IF a = "a2"
    THEN { <<mAmzPay, <<>>, "shopping", None, "t1">>,
           <<mAmzPay, <<>>, "shopping", None, None>> }
    ELSE { <<mAmz, <<>>, "shopping", None, None>>,
           <<mAmz, <<>>, "shopping", None, "t1">>,
           <<mAmzPay, <<>>, None, None, None>>,
           <<mAmzPay, <<>>, "legacy", None, None>>,
           <<mAmzPay, <<>>, "ghost", None, None>>,
           <<mAb, dUpiPayment, "shopping", None, None>>,
           <<mDashes, dUpi7, "shopping", None, None>>,
           <<mAb, dUpiAmzPay, "shopping", None, None>> }

LearnStartWide(a) ==
    /\ learner[a].pc \in {"idle", "done"}
    /\ learns < MaxLearns
    /\ \E args \in WideLearnCalls(a) :
          LearnCall(a, args, check_rate_limit(merchant_rules, a, args[5], now))
    /\ learns' = learns + 1
    /\ UNCHANGED <<merchant_rules, rule_cache, now, next_rule_id, reader, matches>>
    /\ UNCHANGED load_vars

\* the count query of _check_rate_limit raises: 'Allow on error (fail open)'
LearnStartUnchecked(a) ==
    /\ learner[a].pc \in {"idle", "done"}
    /\ learns < MaxLearns
    /\ faults < MaxFaults
    /\ \E args \in WideLearnCalls(a) : args[3] # None /\ LearnCall(a, args, TRUE)
    /\ learns' = learns + 1
    /\ faults' = faults + 1
    /\ UNCHANGED <<merchant_rules, rule_cache, now, next_rule_id, reader, matches>>
    /\ UNCHANGED <<txn_fact, txn_enriched, dim_category, load, edit, normalizer>>

LearnNext ==
    \/ \E a \in Actors : LearnStartWide(a)
    \/ \E a \in Actors : LearnStartUnchecked(a)
    \/ \E a \in Actors : LearnUpsert(a)
    \/ \E a \in Actors : LearnCommit(a)
    \/ \E a \in Actors : LearnClear(a)

InitLearn ==
    /\ merchant_rules = LearnInitRules
    /\ rule_cache = [k \in CacheKeys |-> NoEntry]
    /\ now = 10
    /\ next_rule_id = 100
    /\ learner = [a \in Actors |-> IdleLearner]
    /\ learns = 0
    /\ reader = IdleReader
    /\ matches = 0
    /\ LoadInit

(***************************************************************************)
(* match_merchant for two tenants over stores that hold a malformed rule,  *)
(* rules near the fuzzy threshold and rules of both tenants, with the      *)
(* clock running past the TTL and the store query failing                  *)
(***************************************************************************)
\* steps of the clock, one TTL each, in one behaviour
MaxTicks == 1

MatchTenants == {"t1", "t2"}

MatchScopes == MatchTenants \cup {None}

mAmzpa == <<"A","M","Z","P","A">>

mAmzx == <<"A","M","Z","X">>

mAbc == <<"A","B","C">>

mOlacabspqr == <<"O","L","A","C","A","B","S","P","Q","R">>

mPayAmz == <<"P","A","Y"," ","A","M","Z">>

\* a merchant rule (?i)\bTEXT\b of priority 10
WordRule(id, text, tenant_id) ==
    [SeedRule(id, 10, "merchant", [kind |-> "word", toks |-> <<text>>], "dining", id)
        EXCEPT !.tenant_id = tenant_id]

\* global (?i)\bAMZPAY\b: close to 'AMZ PAY', no regex match of it
RuleAmzpay == WordRule(11, <<"A","M","Z","P","A","Y">>, None)

\* tenant t2's (?i)\bOLA\b
RuleOlaT2 == WordRule(12, mOla, "t2")

\* a description rule whose text is a merchant name
RuleDescAzmz == SeedRule(13, 30, "description", [kind |-> "any", toks |-> <<mAzmz>>], "shopping", 13)

\* a rule whose pattern_regex does not compile, such as (?i)AZMZ(
RuleBad == SeedRule(14, 10, "merchant", [kind |-> "bad", toks |-> <<mAzmz>>], "legacy", 14)

\* ratio 0.80 to 'AMZPA'
RuleAmzpy == WordRule(15, <<"A","M","Z","P","Y">>, None)

\* ratio 0.75 to 'AMZX'
RuleAmzy == WordRule(16, <<"A","M","Z","Y">>, None)

\* ratio 0.70 to 'OLACABSPQR'
RuleOlacabsxyz == WordRule(17, <<"O","L","A","C","A","B","S","X","Y","Z">>, None)

\* (?i)\bA.*B\b, what learn_from_edit stores for merchant 'A-B': its
\* pattern text 'AB' has ratio 0.80 to 'ABC'
RuleAB == SeedRule(18, 10, "merchant", [kind |-> "word", toks |-> << <<"A">>, <<"B">> >>], "dining", 18)

\* (?i)\bAMZ PAY\b: the words of 'PAY AMZ' in another order
RuleAmzSpPay == WordRule(19, mAmzPay, "t1")

\* ratio 0.80 to 'AMZPA' as RuleAmzpy has, same priority, created later
RuleAmzpb == WordRule(20, <<"A","M","Z","P","B">>, None)

\* ratio 0.80 to 'AMZPA' again, tenant t2's, of priority 5 and created first
RuleAmzpc == [WordRule(9, <<"A","M","Z","P","C">>, "t2") EXCEPT !.priority = 5]

StoreScoped == SeedRules \cup EarlierLearnedRules \cup {RuleAmzpay, RuleOlaT2, RuleDescAzmz}

StoreMalformed == StoreScoped \cup {RuleBad}

StoreFuzzy ==
    {RuleAmzpy, RuleAmzy, RuleOlacabsxyz, RuleAB, RuleAmzSpPay, RuleOlaT2, RuleAmzpb, RuleAmzpc}

MatchStores == {StoreScoped, StoreMalformed, StoreFuzzy}

WideMatchInputs ==
    { <<mAmzPay, <<>>>>, <<mAzmz, <<>>>>, <<mOla, <<>>>>, <<<<>>, dUpiAmz>>,
      <<mAmzpa, <<>>>>, <<mAmzx, <<>>>>, <<mAbc, <<>>>>, <<mOlacabspqr, <<>>>>,
      <<mPayAmz, <<>>>> }

MatchCachedWide == MatchCachedIn(MatchScopes, WideMatchInputs)

MatchQueryWide == MatchQueryIn(MatchScopes)

MatchFinishWide == MatchFinishIn(WideMatchInputs)

\* no valid entry and the store query raises: get_merchant_rules has a
\* finally and no except, match_merchant no try, so the error reaches the
\* caller of match_merchant
MatchQueryFails ==
    /\ reader.pc = "idle"
    /\ matches < MaxMatches
    /\ faults < MaxFaults
    /\ \E t \in MatchScopes :
          /\ ~IsCacheValid(rule_cache, CacheKey(t), now)
          /\ reader' = [IdleReader EXCEPT !.pc = "raised", !.tenant_id = t]
    /\ matches' = matches + 1
    /\ faults' = faults + 1
    /\ UNCHANGED <<merchant_rules, rule_cache, now, next_rule_id, learner, learns>>
    /\ UNCHANGED <<txn_fact, txn_enriched, dim_category, load, edit, normalizer>>

\* the caller of match_merchant has the exception
MatchRaised ==
    /\ reader.pc = "raised"
    /\ reader' = IdleReader
    /\ UNCHANGED <<merchant_rules, rule_cache, now, next_rule_id, learner, learns, matches>>
    /\ UNCHANGED load_vars

\* get_merchant_rules with use_cache=False, for the global scope: the store
\* is queried whatever the cache holds
MatchUncachedQuery ==
    /\ reader.pc = "idle"
    /\ matches < MaxMatches
    /\ reader' = [IdleReader EXCEPT !.pc = "uncached",
                                    !.rules = QueryRules(merchant_rules, None)]
    /\ matches' = matches + 1
    /\ UNCHANGED <<merchant_rules, rule_cache, now, next_rule_id, learner, learns>>
    /\ UNCHANGED load_vars

\* datetime.utcnow() moves on by the TTL: every entry written before expires
Tick ==
    /\ now < 10 + MaxTicks * CacheTtlSeconds
    /\ now' = now + CacheTtlSeconds
    /\ UNCHANGED <<merchant_rules, rule_cache, next_rule_id, learner, learns, reader, matches>>
    /\ UNCHANGED load_vars

\* tenant t2 corrects the merchant AZMZ, once, while the matches run
LearnStartScoped(a) ==
    /\ learner[a].pc = "idle"
    /\ learns < MaxLearns
    /\ LearnCall(a, <<mAzmz, <<>>, "shopping", None, "t2">>,
                 check_rate_limit(merchant_rules, a, "t2", now))
    /\ learns' = learns + 1
    /\ UNCHANGED <<merchant_rules, rule_cache, now, next_rule_id, reader, matches>>
    /\ UNCHANGED load_vars

MatchNext ==
    \/ LearnStartScoped("a1")
    \/ LearnUpsert("a1")
    \/ LearnCommit("a1")
    \/ LearnClear("a1")
    \/ MatchCachedWide
    \/ MatchQueryWide
    \/ MatchFinishWide
    \/ MatchReturn
    \/ MatchQueryFails
    \/ MatchRaised
    \/ MatchUncachedQuery
    \/ Tick

InitMatch ==
    /\ merchant_rules \in MatchStores
    /\ rule_cache = [k \in {CacheKey(t) : t \in MatchScopes} |-> NoEntry]
    /\ now = 10
    /\ next_rule_id = 100
    /\ learner = [a \in Actors |-> IdleLearner]
    /\ learns = 0
    /\ reader = IdleReader
    /\ matches = 0
    /\ LoadInit

(***************************************************************************)
(* The transaction-edit flow (transactions.update_transaction)             *)
(***************************************************************************)
\* the user whose transaction the requests edit
Owner == "a2"

\* the staging row the edited transaction was loaded from
EditedRow == [StagingRow(6, 100, "debit", mAmzPay) EXCEPT !.user_id = Owner]

\* the fact an earlier load committed for a staging row
LoadedFact(s) ==
    [FactRow("A", s, normalize_merchant_name(s.merchant_raw),
             LoaderFp(s, normalize_merchant_name(s.merchant_raw)))
        EXCEPT !.xact = "committed"]

\* its enrichment, written when the seed rule (?i).*AMZ.* gave shopping and
\* no subcategory
LoadedEnriched(s) ==
    [txn_id |-> LoadedFact(s).txn_id, category_code |-> "shopping", subcategory_code |-> None,
     rule_confidence |-> 80, xact |-> "committed"]

\* the transaction the requests edit
EditedFact == LoadedFact(EditedRow)

EditedEnriched == LoadedEnriched(EditedRow)

\* the category and subcategory of the payloads
EditPayloads ==
    { <<"dining", None>>, <<"shopping", "online">>, <<None, "cafe">>, <<"dining", "online">> }

\* the active dim_subcategory rows with the code
ActiveSubcategories(subcategory_code) ==
    {r \in DimSubcategoryRows : r.subcategory_code = subcategory_code /\ r.active}

\* _ensure_category_pair over the dim_category rows the session sees: ok is
\* FALSE where it raises the HTTP 400
ensure_category_pair(dim, category_code, subcategory_code) ==
    LET cat_found == \E d \in dim : d.category_code = category_code /\ d.active
        subs      == ActiveSubcategories(subcategory_code)
        sub       == CHOOSE r \in subs : TRUE
        raised    == [ok |-> FALSE, category_code |-> None, subcategory_code |-> None]
    IN  IF category_code = None /\ subcategory_code = None
        THEN [ok |-> TRUE, category_code |-> None, subcategory_code |-> None]
        ELSE IF category_code # None /\ ~cat_found THEN raised
        ELSE IF subcategory_code # None /\ subs = {} THEN raised
        ELSE IF category_code # None /\ subcategory_code # None
                /\ sub.category_code # category_code
        THEN raised
        ELSE [ok |-> TRUE,
              category_code |-> IF category_code # None THEN category_code
                                ELSE sub.category_code,
              subcategory_code |-> subcategory_code]

\* the committed enrichment of the edited transaction
EditedNow == CHOOSE e \in Committed(txn_enriched) : e.txn_id = EditedFact.txn_id

\* the request starts: the fact is found, the pair is validated (HTTP 400
\* and a rollback of nothing when it is not valid) and the enrichment is
\* loaded into the session
EditStartIn(r, payloads) ==
    /\ edit[r].pc = "idle"
    /\ \E p \in payloads :
          LET pair == ensure_category_pair(Committed(dim_category), p[1], p[2])
          IN  edit' = [edit EXCEPT ![r] =
                         IF pair.ok
                         THEN [IdleEdit EXCEPT !.pc = "loaded",
                                               !.category_code = pair.category_code,
                                               !.subcategory_code = pair.subcategory_code,
                                               !.seen = <<EditedNow.category_code,
                                                          EditedNow.subcategory_code>>]
                         ELSE [IdleEdit EXCEPT !.pc = "failed", !.status = 400]]
    /\ UNCHANGED <<txn_fact, txn_enriched, dim_category, load, faults, normalizer>>
    /\ UNCHANGED rule_vars

EditStart(r) == EditStartIn(r, EditPayloads)

\* the enrichment after the UPDATE the flush of the session emits: it sets
\* the columns whose assigned value differs from the loaded one
EditedRowAfter(e, r) ==
    [e EXCEPT !.category_code = IF edit[r].category_code # edit[r].seen[1]
                                THEN edit[r].category_code ELSE @,
              !.subcategory_code = IF edit[r].subcategory_code # edit[r].seen[2]
                                   THEN edit[r].subcategory_code ELSE @,
              !.rule_confidence = 99]

\* session.commit(): the enrichment of the transaction is updated (every
\* fact of the model has its enrichment, so none is added here)
EditCommit(r) ==
    /\ edit[r].pc = "loaded"
    /\ txn_enriched' = {IF e.txn_id = EditedFact.txn_id /\ e.xact = "committed"
                        THEN EditedRowAfter(e, r) ELSE e : e \in txn_enriched}
    /\ edit' = [edit EXCEPT ![r].pc = "committed"]
    /\ UNCHANGED <<txn_fact, dim_category, load, faults, normalizer>>
    /\ UNCHANGED rule_vars

\* the learning block calls learn_from_edit with the merchant and the
\* description of the fact, the validated pair and no tenant; the calls of
\* the user are taken one at a time
EditLearn(r) ==
    /\ edit[r].pc = "committed"
    /\ learner[Owner].pc \in {"idle", "done"}
    /\ \A q \in Requests : edit[q].pc # "learning"
    /\ learns < MaxLearns
    /\ edit[r].category_code # None
    /\ EditedFact.merchant_name_norm # <<>> \/ EditedFact.description # <<>>
    /\ LearnCall(Owner, <<EditedFact.merchant_name_norm, EditedFact.description,
                          edit[r].category_code, edit[r].subcategory_code, None>>,
                 check_rate_limit(merchant_rules, Owner, None, now))
    /\ learns' = learns + 1
    /\ edit' = [edit EXCEPT ![r].pc = "learning"]
    /\ UNCHANGED <<merchant_rules, rule_cache, now, next_rule_id, reader, matches>>
    /\ UNCHANGED <<txn_fact, txn_enriched, dim_category, load, faults, normalizer>>

\* the learning block raises with the response turned into an error
EditLearnRaisesFailing(r) ==
    /\ edit[r].pc = "committed"
    /\ faults < MaxFaults
    /\ faults' = faults + 1
    /\ edit' = [edit EXCEPT ![r].pc = "failed", ![r].status = 400]
    /\ UNCHANGED <<txn_fact, txn_enriched, dim_category, load, normalizer>>
    /\ UNCHANGED rule_vars

\* the learning block raises (learn_from_edit cannot open its session, the
\* import fails): except Exception prints a warning and the request goes on
EditLearnRaises(r) ==
    /\ edit[r].pc = "committed"
    /\ faults < MaxFaults
    /\ faults' = faults + 1
    /\ edit' = [edit EXCEPT ![r].pc = "learned"]
    /\ UNCHANGED <<txn_fact, txn_enriched, dim_category, load, normalizer>>
    /\ UNCHANGED rule_vars

\* learn_from_edit has returned, a rule id or None, or the block was left:
\* the enrichment is read again and the response is sent
EditReturn(r) ==
    /\ \/ edit[r].pc = "learning" /\ learner[Owner].pc = "done"
       \/ edit[r].pc = "learned"
    /\ edit' = [edit EXCEPT ![r].pc = "returned", ![r].status = 200,
                            ![r].rule_id = IF edit[r].pc = "learning"
                                           THEN learner[Owner].ret ELSE 0]
    /\ UNCHANGED <<txn_fact, txn_enriched, dim_category, load, faults, normalizer>>
    /\ UNCHANGED rule_vars

\* the store the requests run on: the seed rules and, in one start, the
\* user at the daily limit of learned rules
EditStores ==
    { SeedRules \cup EarlierLearnedRules,
      SeedRules \cup EarlierLearnedRules \cup BusyRules }

EditNext ==
    \/ \E r \in Requests : EditStart(r)
    \/ \E r \in Requests : EditCommit(r)
    \/ \E r \in Requests : EditLearn(r)
    \/ \E r \in Requests : EditLearnRaises(r)
    \/ \E r \in Requests : EditReturn(r)
    \/ LearnUpsert(Owner)
    \/ LearnCommit(Owner)
    \/ LearnClear(Owner)

InitEdit ==
    /\ merchant_rules \in EditStores
    /\ rule_cache = [k \in CacheKeys |-> NoEntry]
    /\ now = 10
    /\ next_rule_id = 100
    /\ learner = [a \in Actors |-> IdleLearner]
    /\ learns = 0
    /\ reader = IdleReader
    /\ matches = 0
    /\ txn_fact = {EditedFact}
    /\ txn_enriched = {EditedEnriched}
    /\ dim_category = {[category_code |-> c, active |-> DimCategoryInit[c], xact |-> "committed"] :
                          c \in CategoryCodes}
    /\ load = [r \in Runs |-> IdleLoad]
    /\ faults = 0
    /\ edit = [r \in Requests |-> IdleEdit]
    /\ normalizer = IdleNormalizer

(***************************************************************************)
(* A correction, a load for the user who made it or for another user, and  *)
(* a match_merchant call of another request                                *)
(***************************************************************************)
mRaviTeja == <<"R","A","V","I"," ","T","E","J","A">>

\* a row of the owner loaded before, with the merchant of the edited one
KeptRow == [StagingRow(9, 130, "debit", mAmzPay) EXCEPT !.user_id = Owner]

\* txn_staging: of the owner of the edited transaction a new row with its
\* merchant, the row loaded before and a debit no rule matches; of another
\* user a row with that merchant, a credit no rule matches whose fallback
\* subcategory dim_subcategory holds (p2p_transfer) and one whose fallback
\* subcategory it does not hold (p2p_personal)
CorrectStaging ==
    { [StagingRow(7, 120, "debit", mAmzPay) EXCEPT !.user_id = Owner],
      KeptRow,
      [StagingRow(10, 40, "debit", mOla) EXCEPT !.user_id = Owner],
      StagingRow(1, 100, "debit", mAmzPay),
      StagingRow(8, 60, "credit", mRaviTeja),
      StagingRow(5, 70, "credit", mOla) }

\* load_staging_for_user(user_id) starts: the rows query for the user;
\* after holds the runs and the update_transaction requests that had
\* returned by then
LoadStartFor(run, staging) ==
    /\ load[run].pc = "idle"
    /\ \E u \in {s.user_id : s \in staging} :
          load' = [load EXCEPT ![run] =
                     [IdleLoad EXCEPT !.pc = "loop", !.user_id = u,
                                      !.todo = {s.staging_id : s \in {x \in staging : x.user_id = u}},
                                      !.after = {o \in Runs : load[o].pc = "returned"}
                                                   \cup {r \in Requests : edit[r].pc = "returned"}]]
    /\ UNCHANGED <<txn_fact, txn_enriched, dim_category, faults, rule_cache>>
    /\ UNCHANGED <<rule_rest, edit, normalizer>>

\* the correction of the request: the category alone, or the subcategory
\* alone
CorrectPayloads == { <<"dining", None>>, <<None, "cafe">> }

\* the texts of the match_merchant call of the other request
CorrectMatchInputs == { <<mAzmz, <<>>>> }

CorrectNext ==
    \/ EditStartIn("r1", CorrectPayloads)
    \/ EditCommit("r1")
    \/ EditLearn("r1")
    \/ EditReturn("r1")
    \/ LearnUpsert(Owner)
    \/ LearnCommit(Owner)
    \/ LearnClear(Owner)
    \/ MatchQueryIn({None})
    \/ MatchFinishIn(CorrectMatchInputs)
    \/ MatchReturn
    \/ LoadStartFor("B", CorrectStaging)
    \/ LoadRowIn("B", CorrectStaging)
    \/ LoadCommit("B")

InitCorrect ==
    /\ merchant_rules = SeedRules \cup EarlierLearnedRules
    /\ rule_cache = [k \in CacheKeys |-> NoEntry]
    /\ now = 10
    /\ next_rule_id = 100
    /\ learner = [a \in Actors |-> IdleLearner]
    /\ learns = 0
    /\ reader = IdleReader
    /\ matches = 0
    /\ txn_fact = {EditedFact, LoadedFact(KeptRow)}
    /\ txn_enriched = {EditedEnriched, LoadedEnriched(KeptRow)}
    /\ dim_category = {[category_code |-> c, active |-> DimCategoryInit[c], xact |-> "committed"] :
                          c \in CategoryCodes}
    /\ load = [r \in Runs |-> IdleLoad]
    /\ faults = 0
    /\ edit = [r \in Requests |-> IdleEdit]
    /\ normalizer = IdleNormalizer

(***************************************************************************)
(* learn_from_edit over a store that holds a soft-disabled rule, seed      *)
(* rules of the patterns learned and a user one rule short of the daily    *)
(* limit, with two calls in flight that may be made for the same user      *)
(***************************************************************************)
mAmzDashPay == <<"A","M","Z","-","P","A","Y">>

\* a rule user a1 learned today in tenant t1, since then soft-disabled
DisabledRule ==
    [SeedRule(6, USER_RULE_PRIORITY, "merchant",
              [kind |-> "word", toks |-> << <<"A","M","Z">>, <<"P","A","Y">> >>], "dining", 3)
        EXCEPT !.tenant_id = "t1", !.created_by = "a1", !.source = "learned", !.active = FALSE]

\* user a2 is one rule short of the daily limit in tenant t1
UpsertRules ==
    SeedRules \cup {SeedRuleAmz, SeedRuleAmzT1, DisabledRule}
        \cup {BusyRule(i) : i \in 1..(MAX_RULES_PER_USER_PER_DAY - 1)}

\* <<merchant_name, description, category_code, subcategory_code, tenant_id>>
UpsertCalls ==
    { <<mAmzPay, <<>>, "shopping", "online", "t1">>,
      <<mAmzPayLower, <<>>, "shopping", "cafe", "t1">>,
      <<mAmzDashPay, <<>>, "dining", "cafe", "t1">>,
      <<mAmz, <<>>, "dining", "buffet", None>>,
      <<mAmz, <<>>, "shopping", None, "t1">>,
      <<mAb, dUpiAmzPay, "dining", "ghost", "t1">> }

\* the call is made for the actor or for user a2
UpsertStart(a) ==
    /\ learner[a].pc \in {"idle", "done"}
    /\ learns < MaxLearns
    /\ \E user_id \in {a, "a2"}, args \in UpsertCalls :
          LearnCallAs(a, user_id, args, check_rate_limit(merchant_rules, user_id, args[5], now))
    /\ learns' = learns + 1
    /\ UNCHANGED <<merchant_rules, rule_cache, now, next_rule_id, reader, matches>>
    /\ UNCHANGED load_vars

UpsertNext ==
    \/ \E a \in Actors : UpsertStart(a)
    \/ \E a \in Actors : LearnUpsert(a)
    \/ \E a \in Actors : LearnCommit(a)
    \/ \E a \in Actors : LearnClear(a)

InitUpsert ==
    /\ merchant_rules = UpsertRules
    /\ rule_cache = [k \in CacheKeys |-> NoEntry]
    /\ now = 10
    /\ next_rule_id = 100
    /\ learner = [a \in Actors |-> IdleLearner]
    /\ learns = 0
    /\ reader = IdleReader
    /\ matches = 0
    /\ LoadInit

(***************************************************************************)
(* normalize_merchant_name over texts put together from rail prefixes,     *)
(* numbers, words, spaces and punctuation; the text is normalized, the     *)
(* call is repeated, and the result is normalized again, as                *)
(* re_enrich_all_transactions does with the stored merchant_name_norm      *)
(***************************************************************************)
\* pieces in one text
MaxParts == 4

Pieces == { sUPI, <<"g","p","a","y">>, <<" ">>, <<"1","2">>, <<"A","m","z">>, <<"-">> }

RECURSIVE Joined(_)
Joined(parts) == IF parts = <<>> THEN <<>> ELSE Head(parts) \o Joined(Tail(parts))

\* the merchant texts: the empty text among them
NormalizeInputs == {Joined(q) : q \in UNION {[1..n -> Pieces] : n \in 0..MaxParts}}

\* normalize_merchant_name(merchant)
NormalizeFirst ==
    /\ normalizer.pc = "called"
    /\ normalizer' = [normalizer EXCEPT !.pc = "returned",
                                        !.normalized = normalize_merchant_name(normalizer.merchant)]
    /\ UNCHANGED <<rule_vars, txn_fact, txn_enriched, dim_category, load, faults, edit>>

\* another call with the same text
NormalizeSecond ==
    /\ normalizer.pc = "returned"
    /\ normalizer' = [normalizer EXCEPT !.pc = "repeated",
                                        !.second = normalize_merchant_name(normalizer.merchant)]
    /\ UNCHANGED <<rule_vars, txn_fact, txn_enriched, dim_category, load, faults, edit>>

\* the call on what the first call returned
NormalizeAgain ==
    /\ normalizer.pc = "repeated"
    /\ normalizer' = [normalizer EXCEPT !.pc = "renormalized",
                                        !.again = normalize_merchant_name(normalizer.normalized)]
    /\ UNCHANGED <<rule_vars, txn_fact, txn_enriched, dim_category, load, faults, edit>>

NormalizeNext ==
    \/ NormalizeFirst
    \/ NormalizeSecond
    \/ NormalizeAgain

InitNormalize ==
    /\ RulesInit
    /\ txn_fact = {}
    /\ txn_enriched = {}
    /\ dim_category = {[category_code |-> c, active |-> DimCategoryInit[c], xact |-> "committed"] :
                          c \in CategoryCodes}
    /\ load = [run \in Runs |-> IdleLoad]
    /\ faults = 0
    /\ edit = [r \in Requests |-> IdleEdit]
    /\ \E merchant \in NormalizeInputs :
          normalizer = [IdleNormalizer EXCEPT !.pc = "called", !.merchant = merchant]

(***************************************************************************)
(* Specifications                                                          *)
(***************************************************************************)
RulesNext ==
    \/ \E a \in Actors : ~Returning /\ LearnStart(a)
    \/ \E a \in Actors : ~Returning /\ LearnUpsert(a)
    \/ \E a \in Actors : ~Returning /\ LearnCommit(a)
    \/ \E a \in Actors : ~Returning /\ LearnClear(a)
    \/ MatchCached
    \/ MatchQuery
    \/ MatchFinish
    \/ MatchReturn

\* the rule store with its seed rules, no call in flight, nothing loaded
Init == RulesInit /\ LoadInit

\* corrections are learned and texts matched
SpecRules == Init /\ [][RulesNext]_vars

\* loads run over the rules the store starts with
SpecLoad == Init /\ [][LoadNext]_vars

\* learn_from_edit calls alone, the rejected ones among them
SpecLearn == InitLearn /\ [][LearnNext]_vars

\* match_merchant calls
SpecMatch == InitMatch /\ [][MatchNext]_vars

\* two update_transaction requests on one transaction of the user
SpecEdit == InitEdit /\ [][EditNext]_vars

\* a correction and a load after it
SpecCorrect == InitCorrect /\ [][CorrectNext]_vars

\* learn_from_edit calls that upsert, two of them for one user
SpecUpsert == InitUpsert /\ [][UpsertNext]_vars


\* normalize_merchant_name calls
SpecNormalize == InitNormalize /\ [][NormalizeNext]_vars

(***************************************************************************)
(* Properties of the loader                                                *)
(***************************************************************************)
\* the facts and enrichments a run wrote, committed or not
FactsOf(run) == {f \in txn_fact : f.txn_id[1] = run}

EnrichedOf(run) == {e \in txn_enriched : e.txn_id[1] = run}

\* C1: a run of load_staging_for_user that starts after another run over
\* the same staging rows returned normally inserts no fact and no
\* enrichment and returns 0, so the facts are those of the first run.
C1_LoaderIdempotent ==
    \A first, second \in Runs :
        (load[second].pc = "returned" /\ first \in load[second].after)
            => /\ load[second].ret = 0
               /\ FactsOf(second) = {}
               /\ EnrichedOf(second) = {}
               /\ Committed(txn_fact) = FactsOf(first)

\* a second run returned after a first one that loaded three facts
C1_Witness ==
    \E first, second \in Runs :
        /\ load[second].pc = "returned"
        /\ first \in load[second].after
        /\ load[first].ret = 3
        /\ Cardinality(Committed(txn_fact)) = 3

\* the content fingerprint of a fact: fn_txn_fact_fp of its columns
ContentFingerprint(f) ==
    fn_txn_fact_fp(f.user_id, f.txn_date, f.amount, f.direction, f.description,
                   f.merchant_name_norm, f.account_ref)

\* C2: in every state, no two committed facts of a user carry the same
\* content fingerprint, and none the same dedupe_fp, whatever the runs and
\* their interleaving, with staging rows of equal fingerprint.
C2_FingerprintUnique ==
    \A f, g \in Committed(txn_fact) :
        (/\ f.user_id = g.user_id
         /\ \/ ContentFingerprint(f) = ContentFingerprint(g)
            \/ f.dedupe_fp = g.dedupe_fp)
            => f = g

\* two runs that overlapped both committed facts, one of them the fact of
\* the two staging rows of equal fingerprint
C2_Witness ==
    /\ \A run \in Runs : load[run].pc = "returned" /\ load[run].ret > 0 /\ load[run].after = {}
    /\ \E f \in Committed(txn_fact) : f.merchant_name_norm = mAmzPay

\* the fingerprints of the facts one run alone loads from the staging rows
SingleRunFingerprints ==
    {LoaderFp(s, extract_and_categorize(QueryRules(merchant_rules, None), s.description_raw,
                                        s.merchant_raw, s.direction).merchant_norm) :
        s \in {x \in StagingRows :
                  SubcategoryFkOk(extract_and_categorize(QueryRules(merchant_rules, None),
                                                         x.description_raw, x.merchant_raw,
                                                         x.direction).subcategory_code)}}

\* C3: when two runs over the same staging rows overlapped and the store
\* did not fail, both have returned normally once both are over, and the
\* committed facts are one per fingerprint: those a single run loads.
C3_ConcurrentConvergence ==
    (/\ faults = 0
     /\ \A run \in Runs : load[run].pc \in {"returned", "raised"} /\ load[run].after = {})
        => /\ \A run \in Runs : load[run].pc = "returned"
           /\ {f.dedupe_fp : f \in Committed(txn_fact)} = SingleRunFingerprints
           /\ Cardinality(Committed(txn_fact)) = Cardinality(SingleRunFingerprints)

C5_FailureReportsCount ==
    \A run \in Runs : load[run].pc = "raised" => load[run].ret = load[run].inserted

\* C5 as amended: a run that failed raised the error and returned no count,
\* and nothing it wrote is left: no fact, no enrichment, no category.
C5_FailureRollsBack ==
    \A run \in Runs :
        load[run].pc = "raised"
            => /\ load[run].ret = NoReturn
               /\ FactsOf(run) = {}
               /\ EnrichedOf(run) = {}
               /\ \A d \in dim_category : d.xact # run
               /\ \A c \in {d.category_code : d \in Committed(dim_category)} :
                     \/ c \in CategoryCodes
                     \/ \E e \in Committed(txn_enriched) : e.category_code = c

\* a run failed after it had inserted a row
C5_Witness == \E run \in Runs : load[run].pc = "raised" /\ load[run].inserted > 0


(***************************************************************************)
(* Properties of the rule store, the learning service and the matcher      *)
(***************************************************************************)
\* the rules of the list a finished match_merchant call used whose regex
\* matches the texts it was called with
ReaderHits ==
    {i \in 1..Len(reader.rules) :
        RuleRegexMatches(reader.rules[i], reader.merchant_name, reader.description)}

\* the rule a finished match_merchant call returned by its regex loop
ReaderRegexRule == reader.rules[reader.result.idx]

\* C6: when a match_merchant call returns and two or more rules of the list
\* it read regex-match its texts, it returns one of them, and no
\* regex-matching rule of the list has a lower priority number than the one
\* returned, whether the rules apply to the merchant or to the description.
C6_PriorityOrdering ==
    (reader.pc = "done" /\ Cardinality(ReaderHits) >= 2)
        => /\ reader.result.how = "regex"
           /\ reader.result.idx \in ReaderHits
           /\ \A i \in ReaderHits : ReaderRegexRule.priority <= reader.rules[i].priority

\* a call returns the lower-numbered of a merchant rule and a description
\* rule of different priorities that both match
C6_Witness ==
    /\ reader.pc = "done"
    /\ reader.result.how = "regex"
    /\ \E i \in ReaderHits :
          /\ reader.rules[i].applies_to # ReaderRegexRule.applies_to
          /\ reader.rules[i].priority > ReaderRegexRule.priority
          /\ reader.rules[i].created_at > ReaderRegexRule.created_at

RuleKey(r) == <<r.tenant_id, r.applies_to, r.pattern_hash>>

\* C8: in every committed state of the rule store there is at most one
\* active rule for every (scope, applies_to, pattern fingerprint), the
\* global scope included.
C8_RuleUniqueness ==
    \A r, q \in merchant_rules :
        (r.active /\ q.active /\ RuleKey(r) = RuleKey(q)) => r = q

\* the key of the rule a learn_from_edit call in flight writes
CallKey(a) ==
    LET lp == LearnedPattern(learner[a].merchant_name, learner[a].description)
    IN  <<learner[a].tenant_id, lp.applies_to, pattern_hash(lp.pattern)>>

\* C9: when the calls of two actors that synthesize the same pattern in the
\* same scope have both committed before either returned, exactly one rule
\* holds that key and its category and priority are those of one of the
\* two calls.
C9_ConcurrentLearnOneRule ==
    \A a, b \in Actors :
        (/\ a # b
         /\ learner[a].pc = "clear"
         /\ learner[b].pc = "clear"
         /\ CallKey(a) = CallKey(b))
            => /\ Cardinality({r \in merchant_rules : RuleKey(r) = CallKey(a)}) = 1
               /\ \A r \in merchant_rules :
                     RuleKey(r) = CallKey(a)
                        => \E c \in {a, b} :
                              /\ r.category_code = learner[c].category_code
                              /\ r.rule_id = learner[c].ret

\* C10: the commit of a learn_from_edit call leaves every learned rule of
\* its (scope, applies_to, pattern fingerprint) with the category,
\* subcategory and priority the call wrote.
C10_LastWriterWins ==
    [][\A a \in Actors :
          LearnCommit(a)
             => \A p \in learner[a].pending :
                   \A r \in merchant_rules' :
                      (r.source = "learned" /\ RuleKey(r) = RuleKey(p))
                         => /\ r.category_code = p.category_code
                            /\ r.subcategory_code = p.subcategory_code
                            /\ r.priority = p.priority]_vars

\* the stored row of a rule id, and whether a read in a scope shows it
StoredRule(id) == CHOOSE r \in merchant_rules : r.rule_id = id

ShownIn(id, tenant_id) ==
    \E r \in VisibleRules(merchant_rules, tenant_id) : r.rule_id = id

\* C12: a match_merchant call that starts after learn_from_edit returned a
\* rule id works on a rule list that holds that rule, when the rule is one
\* the call's scope shows, and holds it as stored when no other write is
\* between its commit and its invalidation; whether the list comes from the
\* cache or from the store.
C12_InvalidationBoundsStaleness ==
    [][(MatchCached \/ MatchQuery)
          => \A a \in Actors :
                (/\ learner[a].pc = "done"
                 /\ learner[a].ret # 0
                 /\ ShownIn(learner[a].ret, reader'.tenant_id))
                    => \E i \in 1..Len(reader'.rules) :
                          /\ reader'.rules[i].rule_id = learner[a].ret
                          /\ (\A b \in Actors : learner[b].pc # "clear")
                                => reader'.rules[i] = RuleDict(StoredRule(learner[a].ret))]_vars

(***************************************************************************)
(* Properties of learn_from_edit                                           *)
(***************************************************************************)
\* the step is the start of a learn_from_edit call of actor a
LearnStarts(a) == LearnStartWide(a) \/ LearnStartUnchecked(a)

\* the call returned None and wrote nothing
Rejected(a) ==
    /\ learner'[a].pc = "done"
    /\ learner'[a].ret = 0
    /\ merchant_rules' = merchant_rules
    /\ next_rule_id' = next_rule_id

\* C11: once a correction is learned whose pattern is that of a seed rule of
\* priority 10 in the same scope and for the same target, the store holds
\* one rule for that pattern, and a match of a text the pattern matches
\* returns the learned category.
C11_LearnedOverSeed ==
    \A s \in {SeedRuleAmz, SeedRuleAmzT1} :
        \A r \in merchant_rules :
            (/\ r.source = "learned"
             /\ RuleKey(r) = RuleKey(s)
             /\ \A a \in Actors : learner[a].pc \in {"idle", "done"})
                => /\ Cardinality({q \in merchant_rules : RuleKey(q) = RuleKey(s)}) = 1
                   /\ LET rules == QueryRules(merchant_rules, s.tenant_id)
                          res   == match_merchant(rules, mAmz, <<>>)
                      IN  /\ res.how = "regex"
                          /\ rules[res.idx].category_code = r.category_code

\* the learned rules of the actor created today in the scope
LearnedToday(a, tenant_id) ==
    {r \in merchant_rules : /\ r.created_by = a
                            /\ r.source = "learned"
                            /\ r.created_at >= TodayStart(now)
                            /\ r.tenant_id = tenant_id}

AtLimit(a, tenant_id) == Cardinality(LearnedToday(a, tenant_id)) >= 50

C15_CategoryPrecondition ==
    [][\A a \in Actors :
          (/\ LearnStarts(a)
           /\ \/ learner'[a].category_code = None
              \/ learner'[a].category_code \notin CategoryCodes
              \/ learner'[a].category_code = "legacy")
              => Rejected(a)]_vars

\* calls with an inactive and with an unknown category were turned away
C15_Witness ==
    /\ learner["a1"].pc = "done"
    /\ learner["a1"].ret = 0
    /\ learner["a1"].category_code = "legacy"
    /\ learns = 2
    /\ merchant_rules = LearnInitRules

\* the tokens of the description that are no stopword, in whatever case
ContentToken(t) == StrLower(t) \notin STOPWORDS

ContentTokens(description) == SelectSeq(Tokens(description), ContentToken)

\* the merchant text yields no pattern: empty, shorter than 3 characters
\* once stripped, or without a letter or digit
NoMerchantPattern(merchant_name) ==
    \/ Len(StrStrip(merchant_name)) < 3
    \/ \A i \in 1..Len(merchant_name) : ~IsAlnum(merchant_name[i])

\* C16: a call whose merchant text yields no pattern and whose description
\* has fewer than 2 tokens that are no stopwords returns None and writes no
\* rule, and no merchant rule of fewer than 2 tokens is written.
C16_WeakPatternRejected ==
    [][\A a \in Actors :
          /\ (/\ LearnStarts(a)
              /\ NoMerchantPattern(learner'[a].merchant_name)
              /\ Len(ContentTokens(learner'[a].description)) < MIN_PATTERN_TOKENS)
                => Rejected(a)
          /\ LearnUpsert(a)
                => \A p \in learner'[a].pending :
                      p.applies_to = "merchant"
                          => Len(p.pattern_regex.toks) >= MIN_PATTERN_TOKENS]_vars

(***************************************************************************)
(* Properties of get_merchant_rules and match_merchant                     *)
(***************************************************************************)
\* C13: when the store query of get_merchant_rules fails and a list was
\* cached for the scope before (now expired or cleared from validity), the
\* call does not raise and works on that cached list.
C13_RuleStoreFailsOpen ==
    [][(MatchQueryFails /\ rule_cache[CacheKey(reader'.tenant_id)].present)
          => /\ reader'.pc # "raised"
             /\ reader'.rules = rule_cache[CacheKey(reader'.tenant_id)].data]_vars

\* the rule_id of the rule a match returned, 0 for None
ResultRuleId(rules, res) == IF res.idx = 0 THEN 0 ELSE rules[res.idx].rule_id

CompilesOk(rule) == ~RegexRaises(rule.pattern_regex)

\* C17: a finished match returns the rule, by the pass, that a match of the
\* same texts returns on the list without the rules whose pattern does not
\* compile.
C17_MalformedSkipped ==
    reader.pc = "done"
        => LET valid == SelectSeq(reader.rules, CompilesOk)
               res   == match_merchant(valid, reader.merchant_name, reader.description)
           IN  /\ reader.result.how = res.how
               /\ ResultRuleId(reader.rules, reader.result) = ResultRuleId(valid, res)

\* 9/10 of the word overlap of two texts, 0 when one has no word
WordOverlap(a, b) ==
    LET A == SeqToSet(SplitWords(a))
        B == SeqToSet(SplitWords(b))
    IN  IF A = {} \/ B = {} THEN <<0, 1>>
        ELSE <<9 * Cardinality(A \cap B), 10 * Cardinality(A \cup B)>>

\* the similarity ratio of a rule's pattern text and the merchant
Ratio(rule, merchant_name) ==
    SequenceRatio(StrStrip(StrUpper(merchant_name)), FuzzyPatternText(rule.pattern_regex))

\* the larger of the ratio and 0.9 times the word overlap
Score(rule, merchant_name) ==
    FracMax(Ratio(rule, merchant_name),
            WordOverlap(FuzzyPatternText(rule.pattern_regex), StrStrip(StrUpper(merchant_name))))

FracEq(x, y) == x[1] * y[2] = y[1] * x[2]

MerchantScoped(rule) == rule.applies_to = "merchant" /\ rule.pattern_regex # NoPattern

LongText(rule) == Len(FuzzyPatternText(rule.pattern_regex)) >= 3

\* the places of the reader's list, among those given, that score above 0.75
Above(places) == {i \in places : FracGreater(Score(reader.rules[i], reader.merchant_name), <<3, 4>>)}

\* C18: a finished match returns a fuzzy candidate only when no rule of its
\* list regex-matched and the merchant is not empty, and then a merchant
\* rule; when some rule regex-matches it returns the first of them in the
\* list, which none of them precedes in priority; when no rule regex-matches
\* and no merchant rule scores above the threshold it returns None.
C18_RegexBeforeFuzzy ==
    reader.pc = "done"
        => LET rules == reader.rules
               res   == reader.result
           IN  /\ res.how = "fuzzy"
                    => /\ ReaderHits = {}
                       /\ reader.merchant_name # <<>>
                       /\ rules[res.idx].applies_to = "merchant"
               /\ ReaderHits # {}
                    => /\ res.how = "regex"
                       /\ res.idx \in ReaderHits
                       /\ \A j \in ReaderHits :
                             /\ res.idx <= j
                             /\ rules[res.idx].priority <= rules[j].priority
               /\ (/\ ReaderHits = {}
                   /\ \/ reader.merchant_name = <<>>
                      \/ Above({i \in 1..Len(rules) : MerchantScoped(rules[i])}) = {})
                    => res = NoMatch

\* a regex match was returned although a rule of better priority that does
\* not regex-match is more similar to the merchant than the threshold asks
C18_Witness ==
    /\ reader.pc = "done"
    /\ reader.result.how = "regex"
    /\ \E i \in 1..Len(reader.rules) :
          /\ i < reader.result.idx
          /\ MerchantScoped(reader.rules[i])
          /\ FracGreater(Score(reader.rules[i], reader.merchant_name), <<3, 4>>)

\* the fuzzy fallback of a finished match over the places given as its
\* candidates: a candidate of ratio 0.80 is accepted, the call returning it
\* or one that scores no less; one of score 0.70 is not returned; a rule is
\* returned exactly when a candidate scores above 0.75, and it is a
\* candidate no other outscores
FallbackAccepts(places) ==
    (/\ reader.pc = "done"
     /\ ReaderHits = {}
     /\ reader.merchant_name # <<>>)
        => LET rules == reader.rules
               m     == reader.merchant_name
               res   == reader.result
           IN  /\ \A i \in places :
                     FracEq(Ratio(rules[i], m), <<4, 5>>)
                         => /\ res.how = "fuzzy"
                            /\ ~FracGreater(Score(rules[i], m), Score(rules[res.idx], m))
               /\ \A i \in places :
                     FracEq(Score(rules[i], m), <<7, 10>>) => res.idx # i
               /\ res.how = "fuzzy" <=> Above(places) # {}
               /\ res.how = "fuzzy"
                     => /\ res.idx \in Above(places)
                        /\ \A j \in places :
                              ~FracGreater(Score(rules[j], m), Score(rules[res.idx], m))

InScope(rule, tenant_id) == rule.active /\ rule.tenant_id \in {None, tenant_id}

\* C20: the list a call for a scope reads and the rule it returns hold only
\* active rules that are global or the scope's tenant's own, and so does
\* every list in the cache under the scope's key.
C20_ScopeIsolation ==
    /\ reader.pc \in {"fetched", "done"}
          => \A i \in 1..Len(reader.rules) : InScope(reader.rules[i], reader.tenant_id)
    /\ \A t \in MatchScopes :
          \A i \in 1..Len(rule_cache[CacheKey(t)].data) :
              InScope(rule_cache[CacheKey(t)].data[i], t)

\* a call for tenant t1 was served from the cache while the store holds an
\* active rule of tenant t2 and the cache a list of tenant t2
C20_Witness ==
    /\ reader.pc = "done"
    /\ reader.tenant_id = "t1"
    /\ matches = 2
    /\ reader.result.idx # 0
    /\ \E r \in merchant_rules : r.active /\ r.tenant_id = "t2"
    /\ \E i \in 1..Len(reader.rules) : reader.rules[i].tenant_id = "t1"

\* the cache entry a cached call of the reader's scope looks at
ReaderEntry(t) == rule_cache[CacheKey(t)]

\* what get_merchant_rules stored in an entry: the list as it was queried
\* and its expiry
AsStored(entry) ==
    [present |-> entry.present, data |-> entry.data, expires_at |-> entry.expires_at]

\* C29: a call is served from the cache, with the cached list and without
\* replacing an entry, only while the entry is there and now is strictly
\* before its expiry; a caching call goes to the store only when the entry
\* is missing or now is at or after its expiry, reads the list the store
\* holds then and replaces the entry by that list, expiring 600 seconds
\* later; a call with use_cache disabled reads the store whatever the cache
\* holds and leaves the cache as it is.
C29_CacheTimeBoxing ==
    [][/\ (reader.pc = "idle" /\ reader'.pc = "done")
            => /\ ReaderEntry(reader'.tenant_id).present
               /\ now < ReaderEntry(reader'.tenant_id).expires_at
               /\ reader'.rules = ReaderEntry(reader'.tenant_id).data
               /\ \A k \in CacheKeys : AsStored(rule_cache'[k]) = AsStored(rule_cache[k])
       /\ (reader.pc = "idle" /\ reader'.pc \in {"fetched", "raised"})
            => \/ ~ReaderEntry(reader'.tenant_id).present
               \/ now >= ReaderEntry(reader'.tenant_id).expires_at
       /\ (reader.pc = "idle" /\ reader'.pc \in {"fetched", "uncached"})
            => /\ reader'.rules = QueryRules(merchant_rules, reader'.tenant_id)
               /\ rule_cache' = rule_cache
       /\ (reader.pc = "fetched" /\ reader'.pc = "done")
            => /\ reader'.rules = reader.rules
               /\ AsStored(rule_cache'[CacheKey(reader.tenant_id)])
                     = [present |-> TRUE, data |-> reader.rules, expires_at |-> now + 600]
               /\ \A k \in CacheKeys \ {CacheKey(reader.tenant_id)} :
                     rule_cache'[k] = rule_cache[k]
       /\ (reader.pc = "uncached" /\ reader'.pc = "done")
            => /\ reader'.rules = reader.rules
               /\ rule_cache' = rule_cache]_vars

\* a caching call made at the very instant its entry expires has gone to the
\* store
C29_Witness ==
    /\ reader.pc = "fetched"
    /\ ReaderEntry(reader.tenant_id).present
    /\ now = ReaderEntry(reader.tenant_id).expires_at

\* the places of the reader's list that are fuzzy candidates and score what
\* the rule the fuzzy pass returned scores
ReaderTies ==
    {j \in 1..Len(reader.rules) :
        /\ MerchantScoped(reader.rules[j])
        /\ LongText(reader.rules[j])
        /\ FracEq(Score(reader.rules[j], reader.merchant_name),
                  Score(reader.rules[reader.result.idx], reader.merchant_name))}

\* C30: when the fuzzy pass of a finished match returns a rule and several
\* candidates have that rule's score, the rule returned has the lowest
\* priority number among them and, among those of its priority, is the one
\* listed first, which none of them was created after.
C30_FuzzyTieBreak ==
    (reader.pc = "done" /\ reader.result.how = "fuzzy")
        => \A j \in ReaderTies :
              LET best  == reader.rules[reader.result.idx]
                  other == reader.rules[j]
              IN  /\ best.priority <= other.priority
                  /\ best.priority = other.priority
                        => /\ reader.result.idx <= j
                           /\ best.created_at >= other.created_at

\* the fuzzy pass returned one of two candidates of the same score and the
\* same priority
C30_Witness ==
    /\ reader.pc = "done"
    /\ reader.result.how = "fuzzy"
    /\ \E j \in ReaderTies :
          /\ j # reader.result.idx
          /\ reader.rules[j].priority = reader.rules[reader.result.idx].priority
          /\ reader.rules[j].created_at < reader.rules[reader.result.idx].created_at

\* the committed facts a run of the loader wrote
RunFacts(run) == {f \in Committed(txn_fact) : f.txn_id[1] = run}

\* C26: among the committed rows every Fact has exactly one Enrichment and
\* every Enrichment has its Fact, and the count a run returned is the
\* number of Facts the run added.
C26_FactEnrichedOneToOne ==
    /\ \A f \in Committed(txn_fact) :
          Cardinality({e \in Committed(txn_enriched) : e.txn_id = f.txn_id}) = 1
    /\ \A e \in Committed(txn_enriched) :
          \E f \in Committed(txn_fact) : f.txn_id = e.txn_id
    /\ \A run \in Runs :
          load[run].pc = "returned" => load[run].ret = Cardinality(RunFacts(run))

\* both runs returned, one after inserting rows and skipping one, and the
\* facts of both are committed
C26_Witness ==
    /\ \A run \in Runs : load[run].pc = "returned" /\ RunFacts(run) # {}
    /\ \E run \in Runs : load[run].ret >= 2 /\ load[run].skipped >= 1

(***************************************************************************)
(* Properties of the transaction-edit flow                                 *)
(***************************************************************************)
\* C22: every committed Enrichment whose subcategory is set has a
\* subcategory whose parent category is the Enrichment's category.
C22_EnrichmentCategoryInvariant ==
    \A e \in Committed(txn_enriched) :
        e.subcategory_code # None
            => \E d \in DimSubcategoryRows : /\ d.subcategory_code = e.subcategory_code
                                             /\ d.category_code = e.category_code

\* C24: once the edit of a request is committed the request ends in a
\* response of status 200 and never in an error, whether learn_from_edit
\* returns a rule, returns None (rate-limited or rejected) or raises; the
\* steps of learning change no Fact and no Enrichment: an Enrichment changes
\* only in the commit of a request's edit.
C24_LearningBestEffort ==
    [][/\ \A r \in Requests :
             /\ edit[r].pc \in {"committed", "learning", "learned"}
                   => edit'[r].pc \in {"committed", "learning", "learned", "returned"}
             /\ edit'[r].pc = "returned" => edit'[r].status = 200
       /\ txn_enriched' # txn_enriched
             => \E q \in Requests : edit[q].pc = "loaded" /\ edit'[q].pc = "committed"
       /\ txn_fact' = txn_fact]_vars

\* both requests were answered with 200 and their edits are committed: for
\* one learn_from_edit returned a rule, for the other the learning raised
C24_Witness ==
    /\ \A r \in Requests : edit[r].pc = "returned" /\ edit[r].status = 200
    /\ \E r \in Requests : edit[r].rule_id # 0
    /\ faults = 1
    /\ EditedNow.rule_confidence = 99

(***************************************************************************)
(* Properties of a load that follows a correction                          *)
(***************************************************************************)
\* the staging row a fact or an enrichment of the run was written for
RowOf(x) == CHOOSE s \in CorrectStaging : s.staging_id = x.txn_id[2]

\* the normalized merchant the loader matches and fingerprints a row with
RowMerchant(s) == normalize_merchant_name(s.merchant_raw)

\* the rules without those learned from the corrections of other users
OwnRules(store, user_id) == {r \in store : r.source = "learned" => r.created_by = user_id}

\* C21: the category a load gives a transaction of a user other than the
\* one who corrected is the category the rules give it without the rules
\* learned from other users' corrections.
C21_CrossUserNoninterference ==
    \A e \in txn_enriched :
        (e.txn_id[1] = "B" /\ RowOf(e).user_id # Owner)
            => e.category_code =
                  extract_and_categorize(QueryRules(OwnRules(merchant_rules, RowOf(e).user_id), None),
                                         RowOf(e).description_raw, RowOf(e).merchant_raw,
                                         RowOf(e).direction).category_code

\* C23: when a run has returned, every staging row of its user has a
\* committed Fact with its Enrichment, whether or not the category and the
\* subcategory resolved for it were in the reference dimensions.
C23_MissingReferenceData ==
    load["B"].pc = "returned"
        => \A s \in CorrectStaging :
              s.user_id = load["B"].user_id
                  => \E f \in Committed(txn_fact) :
                        /\ f.dedupe_fp = LoaderFp(s, RowMerchant(s))
                        /\ \E e \in Committed(txn_enriched) : e.txn_id = f.txn_id

\* a step is the commit of a request's edit
EditCommits == \E q \in Requests : edit[q].pc = "loaded" /\ edit'[q].pc = "committed"

\* C25: a step that is not the commit of a manual edit (a step of learning,
\* of a load, of a match) leaves every committed Fact and Enrichment as it
\* is, and no staging row ever has two Facts.
C25_EnrichmentSnapshot ==
    [][/\ ~EditCommits
            => /\ Committed(txn_fact) \subseteq Committed(txn_fact')
               /\ Committed(txn_enriched) \subseteq Committed(txn_enriched')
       /\ \A f, g \in txn_fact' : f.txn_id[2] = g.txn_id[2] => f = g]_vars

\* a load that started after the correction has returned: the row loaded
\* before is still enriched with shopping and has its one Fact, while the
\* rules now give its merchant the corrected category
C25_Witness ==
    /\ load["B"].pc = "returned"
    /\ "r1" \in load["B"].after
    /\ edit["r1"].rule_id # 0
    /\ LoadedEnriched(KeptRow) \in txn_enriched
    /\ Cardinality({f \in txn_fact : f.txn_id[2] = KeptRow.staging_id}) = 1
    /\ extract_and_categorize(QueryRules(merchant_rules, None), KeptRow.description_raw,
                              KeptRow.merchant_raw, KeptRow.direction).category_code = "dining"

\* no rule with a category matches the row in the list
Unmatched(rules, s) ==
    LET rule_match == match_merchant(rules, RowMerchant(s), s.description_raw)
    IN  rule_match.how = "none" \/ rules[rule_match.idx].category_code = None

\* C27: the Enrichment a load writes for a row that no rule with a category
\* matches has category transfers or income when the row is a credit, and
\* the category of the keyword inference (shopping when no keyword is
\* found) when it is a debit.
C27_UnmatchedCredits ==
    [][\A s \in CorrectStaging :
          (/\ s.staging_id \in load["B"].todo
           /\ s.staging_id \notin load'["B"].todo
           /\ Unmatched(LoadRules, s))
             => \A e \in txn_enriched' :
                   e.txn_id = TxnId("B", s.staging_id)
                      => IF s.direction = "credit"
                         THEN e.category_code \in {"transfers", "income"}
                         ELSE e.category_code =
                                 infer_category_from_keywords(
                                     IF RowMerchant(s) # <<>> THEN RowMerchant(s)
                                     ELSE s.description_raw)]_vars

\* the credit of RAVI TEJA, which no rule matches, is committed with the
\* category transfers
C27_Witness ==
    \E e \in Committed(txn_enriched) :
        /\ e.txn_id = TxnId("B", 8)
        /\ RowOf(e).direction = "credit"
        /\ e.category_code = "transfers"

\* the rule learn_from_edit returned to the request
LearnedRule == CHOOSE r \in merchant_rules : r.rule_id = edit["r1"].rule_id

\* the rule is the first of the ordered global rules that regex-matches the
\* row
FirstToMatch(rule, s) ==
    LET rules == QueryRules(merchant_rules, None)
        hits  == {i \in 1..Len(rules) : RuleRegexMatches(rules[i], RowMerchant(s), s.description_raw)}
    IN  /\ hits # {}
        /\ rules[CHOOSE i \in hits : \A j \in hits : i <= j].rule_id = rule.rule_id

\* C28: in a load that started after the correction returned with a learned
\* merchant rule, a newly staged row of the user with the corrected
\* merchant, which no other active rule of equal or higher precedence
\* matches, is enriched with the corrected category.
C28_CorrectionTakesEffect ==
    [][\A s \in CorrectStaging :
          (/\ "r1" \in load["B"].after
           /\ edit["r1"].rule_id # 0
           /\ s.user_id = Owner
           /\ RowMerchant(s) = EditedFact.merchant_name_norm
           /\ ~\E f \in txn_fact : f.dedupe_fp = LoaderFp(s, RowMerchant(s))
           /\ s.staging_id \in load["B"].todo
           /\ s.staging_id \notin load'["B"].todo
           /\ LearnedRule.applies_to = "merchant"
           /\ FirstToMatch(LearnedRule, s))
             => \E e \in txn_enriched' :
                   /\ e.txn_id = TxnId("B", s.staging_id)
                   /\ e.category_code = LearnedRule.category_code]_vars


(***************************************************************************)
(* Properties of the rules learn_from_edit writes                          *)
(***************************************************************************)
\* dim_subcategory lists the subcategory as an active row of the category
ListedUnder(subcategory_code, category_code) ==
    [subcategory_code |-> subcategory_code, category_code |-> category_code, active |-> TRUE]
        \in DimSubcategoryRows

\* the call passes every guard that does not concern the subcategory
PassesGuards(call, store, t) ==
    /\ call.category_code # None
    /\ check_rate_limit(store, call.user_id, call.tenant_id, t)
    /\ CategoryOk(DimCategoryInit, call.category_code)
    /\ LearnedPattern(call.merchant_name, call.description).pattern # NoPattern

\* C31: every rule a learn_from_edit call writes has no subcategory or an
\* active subcategory of the rule's category; a correction whose
\* subcategory is unknown, inactive or of another category is not rejected
\* for it and is stored without a subcategory.
C31_RuleSubcategoryConsistent ==
    [][\A a \in Actors :
          /\ LearnUpsert(a)
                => \A p \in learner'[a].pending :
                      /\ p.subcategory_code = None
                            \/ ListedUnder(p.subcategory_code, p.category_code)
                      /\ ~ListedUnder(learner[a].subcategory_code, learner[a].category_code)
                            => p.subcategory_code = None
          /\ (UpsertStart(a) /\ PassesGuards(learner'[a], merchant_rules, now))
                => learner'[a].pc = "upsert"]_vars

\* a correction to shopping with the dining subcategory cafe was committed
\* as a rule without a subcategory
C31_Witness ==
    \E a \in Actors :
        /\ learner[a].pc = "clear"
        /\ learner[a].category_code = "shopping"
        /\ learner[a].subcategory_code = "cafe"
        /\ \E r \in merchant_rules : /\ r.rule_id = learner[a].ret
                                     /\ r.category_code = "shopping"
                                     /\ r.subcategory_code = None

\* C32: a learn_from_edit call that writes, writes one rule: a merchant
\* rule of priority 10 when the merchant text yields a pattern, else a
\* description rule of priority 12 over the first 3 at most, 2 at least,
\* tokens of the description that are no stopwords, in their order.
C32_PatternPreference ==
    [][\A a \in Actors :
          LearnUpsert(a)
             => /\ Cardinality(learner'[a].pending) = 1
                /\ \A p \in learner'[a].pending :
                      IF ~NoMerchantPattern(learner[a].merchant_name)
                      THEN p.applies_to = "merchant" /\ p.priority = 10
                      ELSE LET toks == ContentTokens(learner[a].description)
                               n    == IF Len(toks) < 3 THEN Len(toks) ELSE 3
                           IN  /\ p.applies_to = "description"
                               /\ p.priority = 12
                               /\ Len(toks) >= 2
                               /\ p.pattern_regex.toks = [i \in 1..n |-> StrUpper(toks[i])]]_vars

\* the tokens of the name, upper-cased
UpperTokens(name) == [i \in 1..Len(Tokens(name)) |-> StrUpper(Tokens(name)[i])]

\* C33: the merchant pattern a call writes is the word pattern over the
\* upper-cased tokens of the name, and in a tenant scope a stored merchant
\* rule whose tokens are the same up to letter case is the rule the call
\* upserts.
C33_MerchantPatternCanonical ==
    [][\A a \in Actors :
          LearnUpsert(a)
             => \A p \in learner'[a].pending :
                   p.applies_to = "merchant"
                      => /\ p.pattern_regex =
                               [kind |-> "word", toks |-> UpperTokens(learner[a].merchant_name)]
                         /\ \A r \in merchant_rules :
                               (/\ p.tenant_id # None
                                /\ r.tenant_id = p.tenant_id
                                /\ r.applies_to = "merchant"
                                /\ r.pattern_regex.kind = "word"
                                /\ [i \in 1..Len(r.pattern_regex.toks) |-> StrUpper(r.pattern_regex.toks[i])]
                                      = UpperTokens(learner[a].merchant_name))
                                  => r.rule_id = p.rule_id]_vars

\* C38: no user has more than 50 learned rules created on one day in one
\* scope, whatever the interleaving of the user's calls.
C38_RateLimitBound ==
    \A user_id \in Actors : \A tenant_id \in Scopes :
        Cardinality(LearnedToday(user_id, tenant_id)) <= 50

\* C39: the commit of a learn_from_edit call deletes no rule, and a stored
\* rule of the key the call wrote keeps its id and creation time and is
\* active, created by the call's user and of source 'learned' afterwards.
C39_UpsertReactivates ==
    [][\A a \in Actors :
          LearnCommit(a)
             => /\ \A r \in merchant_rules : \E q \in merchant_rules' : q.rule_id = r.rule_id
                /\ \A p \in learner[a].pending : \A r \in merchant_rules :
                      RuleKey(r) = RuleKey(p)
                         => \E q \in merchant_rules' : /\ q.rule_id = r.rule_id
                                                       /\ q.created_at = r.created_at
                                                       /\ q.active
                                                       /\ q.created_by = learner[a].user_id
                                                       /\ q.source = "learned"]_vars


(***************************************************************************)
(* Properties of normalize_merchant_name                                   *)
(***************************************************************************)
\* the text is all digits
AllDigits(t) == t # <<>> /\ \A i \in 1..Len(t) : IsDigit(t[i])

\* upper-case letters, digits and single spaces, no space at either end, no
\* rail prefix as its first token and no number as its last
NormalForm(out) ==
    /\ \A i \in 1..Len(out) : IsUpper(out[i]) \/ IsDigit(out[i]) \/ out[i] = " "
    /\ \A i \in 1..(Len(out) - 1) : ~(out[i] = " " /\ out[i + 1] = " ")
    /\ out # <<>> => out[1] # " " /\ out[Len(out)] # " "
    /\ LET words == SplitWords(out)
       IN  words # <<>>
              => /\ \A i \in 1..Len(RailPrefixes) : words[1] # RailPrefixes[i]
                 /\ ~AllDigits(words[Len(words)])

\* C34: a repeated call of normalize_merchant_name returns what the first
\* returned; what it returns holds only A-Z, 0-9 and single spaces, has no
\* space at either end, no leading token UPI, PAYTM, PHONEPE or GPAY and no
\* trailing all-digit token; the empty text gives the empty text.
C34_NormalizerOutputForm ==
    /\ normalizer.pc \in {"repeated", "renormalized"}
          => normalizer.second = normalizer.normalized
    /\ normalizer.pc \in {"returned", "repeated", "renormalized"}
          => /\ NormalForm(normalizer.normalized)
             /\ normalizer.merchant = <<>> => normalizer.normalized = <<>>

\* C35: normalizing what normalize_merchant_name returned returns it
\* unchanged.
C35_NormalizerIdempotent ==
    normalizer.pc = "renormalized" => normalizer.again = normalizer.normalized


(***************************************************************************)
(* Properties of a load that fails and of the rows a load skips            *)
(***************************************************************************)
\* the step is the raise of the run
Raises(run) == load[run].pc # "raised" /\ load'[run].pc = "raised"

\* C36: the step in which load_staging_for_user raises leaves the committed
\* facts, enrichments and categories as they were and leaves no fact, no
\* enrichment and no category of the run, the rows it had processed before
\* the failing one included.
C36_AbortedLoadLeavesNothing ==
    [][\A run \in Runs :
          Raises(run)
             => /\ Committed(txn_fact') = Committed(txn_fact)
                /\ Committed(txn_enriched') = Committed(txn_enriched)
                /\ Committed(dim_category') = Committed(dim_category)
                /\ \A f \in txn_fact' : f.txn_id[1] # run /\ f.xact # run
                /\ \A e \in txn_enriched' : e.txn_id[1] # run /\ e.xact # run
                /\ \A d \in dim_category' : d.xact # run]_vars

\* a run raised with rows inserted and rows left, no run committed, and the
\* store holds what it held at the start
C36_Witness ==
    /\ \E run \in Runs : /\ load[run].pc = "raised"
                         /\ load[run].inserted > 0
                         /\ load[run].todo # {}
    /\ \A run \in Runs : load[run].pc # "returned"
    /\ Committed(txn_fact) = {}
    /\ Committed(txn_enriched) = {}
    /\ {d.category_code : d \in Committed(dim_category)} = CategoryCodes

\* C37: once a run returned and no run is under way, every staging row of
\* the user has a committed fact of the user with the row's fingerprint.
C37_NoStagedRowLost ==
    \A run \in Runs :
        (/\ load[run].pc = "returned"
         /\ \A other \in Runs : load[other].pc \in {"idle", "returned", "raised"})
            => \A s \in StagingRows :
                  \E f \in Committed(txn_fact) :
                     /\ f.user_id = s.user_id
                     /\ f.dedupe_fp = LoaderFp(s, normalize_merchant_name(s.merchant_raw))


(***************************************************************************)
(* Properties of what match_merchant does to the cached rule lists         *)
(***************************************************************************)
\* the "matched_text" keys of a list whose dicts are as the query built them
NoMatchedText(data) == [i \in 1..Len(data) |-> <<>>]

\* C40: a match_merchant call leaves every dict of the cached rule lists
\* with the keys and values it had before the call: the dicts of a list the
\* call found in the cache are after the call what they were before it, and
\* the dicts of a list the call stored are what the query built.
C40_MatchLeavesCachedRules ==
    [][(reader.pc # "done" /\ reader'.pc = "done")
          => \A k \in CacheKeys :
                rule_cache'[k].matched_text
                    = IF AsStored(rule_cache'[k]) = AsStored(rule_cache[k])
                      THEN rule_cache[k].matched_text
                      ELSE NoMatchedText(rule_cache'[k].data)]_vars

=============================================================================
